---- MODULE Spec2Model ----
(***************************************************************************)
(* Lease-based task coordination engine of the harness hooks:              *)
(*   hooks/harness-claim.py  (Claim, Reap, eligibility, lock, store)       *)
(*   hooks/harness-renew.py  (Renew, lock, store)                          *)
(* Worker processes are independent OS processes that coordinate through   *)
(* the filesystem only: a lock directory, the state document, its .bak     *)
(* and .tmp siblings.                                                      *)
(*                                                                         *)
(* Time is counted in ticks of half a second, so that the truncation to    *)
(* whole seconds done by _iso_z is visible.                                *)
(***************************************************************************)
EXTENDS Integers, Sequences, FiniteSets, TLC

\* ---------------------------------------------------------------- bounds
MaxClock == 2            \* the clock stops ticking here
LockTimeoutTicks == 2    \* HARNESS_LOCK_TIMEOUT_SECONDS, in ticks
LeaseSeconds == 1        \* HARNESS_LEASE_SECONDS

TicksPerSecond == 2      \* resolution of the model clock

\* ------------------------------------------------------ program constants
MissingPidSeconds == 1   \* "time.time() - missing_pid_since < 1.0"
MissingPidWindow == MissingPidSeconds * TicksPerSecond
DefaultMaxAttempts == 3
UnrankedPriority == 9

\* Python None for an Optional[float] / Optional[datetime]
NoTime == 0 - 1
\* a lease_expires_at value that datetime.fromisoformat rejects
BadTs == 0 - 2

Procs == {"p1", "p2"}
\* pid recorded by an invocation that died before this run started
DeadPid == "dead"
NoPid == "none"
TaskIds == {"A", "B"}
NoTask == "-"

\* ------------------------------------------------------------ dict helpers
Has(t, k) == k \in DOMAIN t
Get(t, k, d) == IF k \in DOMAIN t THEN t[k] ELSE d
Put(t, k, v) == [x \in (DOMAIN t) \cup {k} |-> IF x = k THEN v ELSE t[x]]
Pop(t, ks) == [x \in (DOMAIN t) \ ks |-> t[x]]

\* ------------------------------------------------------------------ time
\* _iso_z: astimezone(utc).replace(microsecond=0), i.e. truncation to seconds
IsoZ(t) == t - (t % TicksPerSecond)

\* _parse_iso: None for a non-string, blank or unparsable value
ParseIso(ts) == IF ts < 0 THEN NoTime ELSE ts

LeaseTicks == LeaseSeconds * TicksPerSecond

\* ------------------------------------------------------- task documents
\* A task is a dict: a function from the field names it has to their values.
\*   status      string
\*   priority    string
\*   depends_on  [kind |-> "list" | "truthy" | "falsy", ids |-> set of ids]
\*               ("truthy"/"falsy": a value that is not a list)
\*   attempts, max_attempts   naturals
\*   claimed_by  string; claimed_at, lease_expires_at  ticks or BadTs
\*   error_log   [islist |-> BOOLEAN, items |-> sequence of entries]
\* A document is [tasks |-> sequence of tasks, mode |-> concurrency_mode].
LeaseFields == {"claimed_by", "claimed_at", "lease_expires_at"}

Status(t) == Get(t, "status", "")

DepList(S) == [kind |-> "list", ids |-> S]

\* the order of str on the ids in use: "" < "A" < "B" < "t10" < "t2" < "t9"
IdOrd(id) ==
    IF id = "A" THEN 1
    ELSE IF id = "B" THEN 2
    ELSE IF id = "t10" THEN 3
    ELSE IF id = "t2" THEN 4
    ELSE IF id = "t9" THEN 5
    ELSE 0

\* _priority_rank
PriorityRank(v) ==
    IF v = "P0" THEN 0
    ELSE IF v = "P1" THEN 1
    ELSE IF v = "P2" THEN 2
    ELSE UnrankedPriority

\* completed, in _eligible_tasks
CompletedIds(tasks) ==
    {Get(tasks[i], "id", "") : i \in {j \in DOMAIN tasks : Status(tasks[j]) = "completed"}}

\* DepsOk that accepts every list
DepsOk_AnyList(t, completed) ==
    LET deps == Get(t, "depends_on", DepList({}))
    IN  IF deps.kind = "falsy" THEN TRUE
        ELSE deps.kind = "list"

\* deps_ok: "t.get('depends_on') or []" turns every falsy value into [],
\* a remaining non-list is rejected
DepsOk(t, completed) ==
    LET deps == Get(t, "depends_on", DepList({}))
    IN  IF deps.kind = "falsy" THEN TRUE
        ELSE IF deps.kind # "list" THEN FALSE
        ELSE deps.ids \subseteq completed

\* attempts(t): int(t.get("attempts") or 0)
Attempts(t) == Get(t, "attempts", 0)

\* max_attempts(t): 3 when the field is absent
MaxAttemptsOf(t) == Get(t, "max_attempts", DefaultMaxAttempts)

PendingSet(tasks) ==
    {i \in DOMAIN tasks :
        Status(tasks[i]) = "pending" /\ DepsOk(tasks[i], CompletedIds(tasks))}

\* RetrySet that retries a task once more after its last attempt
RetrySet_Inclusive(tasks) ==
    {i \in DOMAIN tasks :
        /\ Status(tasks[i]) = "failed"
        /\ Attempts(tasks[i]) <= MaxAttemptsOf(tasks[i])
        /\ DepsOk(tasks[i], CompletedIds(tasks))}

\* retry, in _eligible_tasks
RetrySet(tasks) ==
    {i \in DOMAIN tasks :
        /\ Status(tasks[i]) = "failed"
        /\ Attempts(tasks[i]) < MaxAttemptsOf(tasks[i])
        /\ DepsOk(tasks[i], CompletedIds(tasks))}

\* KeyLess that compares the rank and then the position in the document
KeyLess_DocOrder(tasks, i, j) ==
    LET ri == PriorityRank(Get(tasks[i], "priority", ""))
        rj == PriorityRank(Get(tasks[j], "priority", ""))
    IN  \/ ri < rj
        \/ ri = rj /\ i < j

\* key(t) = (priority rank, id), compared lexicographically; list.sort is
\* stable, so equal keys keep document order
KeyLess(tasks, i, j) ==
    LET ri == PriorityRank(Get(tasks[i], "priority", ""))
        rj == PriorityRank(Get(tasks[j], "priority", ""))
        ii == IdOrd(Get(tasks[i], "id", ""))
        ij == IdOrd(Get(tasks[j], "id", ""))
    IN  \/ ri < rj
        \/ ri = rj /\ ii < ij
        \/ ri = rj /\ ii = ij /\ i < j

RECURSIVE SortByKey(_, _)
SortByKey(tasks, S) ==
    IF S = {} THEN <<>>
    ELSE LET m == CHOOSE i \in S : \A j \in S \ {i} : KeyLess(tasks, i, j)
         IN  <<m>> \o SortByKey(tasks, S \ {m})

\* _eligible_tasks: (pending, retry), as sequences of indexes into tasks
EligibleTasks(tasks) ==
    [pending |-> SortByKey(tasks, PendingSet(tasks)),
     retry   |-> SortByKey(tasks, RetrySet(tasks))]

\* NextTask that prefers the retry list
NextTask_RetryFirst(tasks) ==
    LET e == EligibleTasks(tasks)
    IN  IF e.retry # <<>> THEN e.retry[1]
        ELSE IF e.pending # <<>> THEN e.pending[1]
        ELSE 0

\* task = pending[0] if pending else (retry[0] if retry else None); 0 is None
NextTask(tasks) ==
    LET e == EligibleTasks(tasks)
    IN  IF e.pending # <<>> THEN e.pending[1]
        ELSE IF e.retry # <<>> THEN e.retry[1]
        ELSE 0

\* --------------------------------------------------------------- Reap
\* LeaseExpired with a missing or unparsable lease counted as expired
LeaseExpired_NoneExpired(t, now) ==
    /\ Status(t) = "in_progress"
    /\ LET exp == ParseIso(Get(t, "lease_expires_at", BadTs))
       IN  ~(exp # NoTime /\ exp > now)

\* the test of the loop body of _reap_stale_leases
LeaseExpired(t, now) ==
    /\ Status(t) = "in_progress"
    /\ LET exp == ParseIso(Get(t, "lease_expires_at", BadTs))
       IN  ~(exp = NoTime \/ exp > now)

NoLog == [islist |-> FALSE, items |-> <<>>]

\* ReapTask without the increment of attempts
ReapTask_NoIncrement(t) ==
    LET err == Get(t, "claimed_by", "None")
        log == Get(t, "error_log", NoLog)
        newlog == IF log.islist
                  THEN [islist |-> TRUE, items |-> Append(log.items, err)]
                  ELSE [islist |-> TRUE, items |-> <<err>>]
        t2 == Put(t, "error_log", newlog)
        t3 == Put(t2, "status", "failed")
    IN  Pop(t3, LeaseFields)

\* the body of the loop of _reap_stale_leases for one expired task
ReapTask(t) ==
    LET err == Get(t, "claimed_by", "None")
        log == Get(t, "error_log", NoLog)
        newlog == IF log.islist
                  THEN [islist |-> TRUE, items |-> Append(log.items, err)]
                  ELSE [islist |-> TRUE, items |-> <<err>>]
        t1 == Put(t, "attempts", Attempts(t) + 1)
        t2 == Put(t1, "error_log", newlog)
        t3 == Put(t2, "status", "failed")
    IN  Pop(t3, LeaseFields)

\* _reap_stale_leases: the task list after the loop
ReapStaleLeases(tasks, now) ==
    [i \in DOMAIN tasks |->
        IF LeaseExpired(tasks[i], now) THEN ReapTask(tasks[i]) ELSE tasks[i]]

\* ReapChanged with "changed = True" set before the expiry test
ReapChanged_BeforeTest(tasks, now) ==
    \E i \in DOMAIN tasks : Status(tasks[i]) = "in_progress"

\* _reap_stale_leases: its return value
ReapChanged(tasks, now) ==
    \E i \in DOMAIN tasks : LeaseExpired(tasks[i], now)

\* ======================================================= the state machine
VARIABLES
    clock,      \* wall clock, in ticks
    lockdir,    \* the lock directory: [exists, pid]
    doc,        \* harness-tasks.json: [exists, complete, data]
    bak,        \* harness-tasks.json.bak
    tmp,        \* harness-tasks.json.tmp
    tmpOpen,    \* processes with the file now at the .tmp path open for writing
    docOpen,    \* processes whose open file has been moved to the primary path
    pc,         \* position of each process
    op,         \* "claim" or "renew"
    wid,        \* HARNESS_WORKER_ID of each process ("" when unset)
    tid,        \* HARNESS_TASK_ID of a renew
    deadline,   \* _acquire_lock: deadline
    missing,    \* _acquire_lock: missing_pid_since
    st,         \* main: state (with tasks), the in-memory document
    base,       \* the persisted version st was derived from
    nowv,       \* main: now
    phase,      \* which _atomic_write_json call of main is running
    res,        \* what the invocation printed / how it ended
    reap,       \* _reap_stale_leases applied to drawn inputs: arguments and results
    sel,        \* _eligible_tasks applied to drawn inputs: argument and results
    gate,       \* the stop hook: the files it reads, its clock, its last run
    ralph       \* the Ralph loop stop hook: its state file, its last run

vars == <<clock, lockdir, doc, bak, tmp, tmpOpen, docOpen, pc, op, wid, tid,
          deadline, missing, st, base, nowv, phase, res, reap, sel, gate,
          ralph>>

fsVars == <<doc, bak, tmp, tmpOpen, docOpen>>
lockVars == <<deadline, missing>>
memVars == <<st, base, nowv, phase>>
envVars == <<op, wid, tid>>

EmptyDoc == [tasks |-> <<>>, mode |-> ""]
NoFile == [exists |-> FALSE, complete |-> FALSE, data |-> EmptyDoc]
FileOf(d) == [exists |-> TRUE, complete |-> TRUE, data |-> d]
NoDir == [exists |-> FALSE, pid |-> NoPid]
NoRes == [kind |-> "", task |-> NoTask]

\* HARNESS_WORKER_ID of the worker that runs process p
WorkerOf(p) == IF p = "p1" THEN "w1" ELSE "w2"
\* f"{socket.gethostname()}:{os.getpid()}"
HostPid(p) == IF p = "p1" THEN "host:p1" ELSE "host:p2"

\* _pid_alive that reports every pid as alive
PidAlive_Always(pid) == TRUE

\* _pid_alive: os.kill(pid, 0) succeeds
PidAlive(pid) == pid \in Procs /\ pc[pid] \notin {"idle", "done", "crashed"}

\* between the return of _acquire_lock and the call of _release_lock
InCritical(p) == pc[p] \in {"locked", "bak", "open", "write", "replace", "release"}

\* no call of _reap_stale_leases on drawn inputs
ReapIdle == [stage |-> 0, in |-> <<>>, now |-> 0, out |-> <<>>, changed |-> FALSE,
             now2 |-> 0, out2 |-> <<>>, changed2 |-> FALSE]

\* no call of _eligible_tasks on drawn inputs
SelIdle == [stage |-> 0, tasks |-> <<>>, pending |-> <<>>, retry |-> <<>>,
            next |-> 0, again |-> 0, claim |-> NoRes, stamped |-> <<>>]

\* the stop hook has not run: no marker, no counter
GateIdle == [shape |-> "list", tasks |-> <<>>, mode |-> "", active |-> FALSE,
             timeout |-> 0 - 3, counter |-> [present |-> FALSE, blocks |-> 0,
             completed |-> 0, first |-> NoTime], now |-> 0, n |-> 0, re |-> FALSE,
             w |-> "", decision |-> "", why |-> "", next |-> NoTask, summary |-> "",
             sub |-> NoRes, idle |-> NoRes]

\* completion_promise: null
NoPromise == [word |-> "", esc |-> 0]

\* no Ralph loop: no state file, the hook has not run
RalphIdle == [file |-> "absent", iteration |-> 0, max_iterations |-> 0,
              completion_promise |-> NoPromise, n |-> 0, decision |-> "",
              msg |-> NoPromise, start |-> 0, limit |-> 0, promise |-> NoPromise,
              blocks |-> 0]

\* an entry of tasks that is not a JSON object (a string, a number, null)
NonDict == [nondict |-> "note"]

IsDict(t) == "nondict" \notin DOMAIN t

\* tasks = [t for t in tasks_raw if isinstance(t, dict)]
DictTasks(raw) == SelectSeq(raw, IsDict)

\* ------------------------------------------------------ initial documents
PendingTask(id, prio, deps) ==
    [id |-> id, title |-> id, status |-> "pending", priority |-> prio,
     depends_on |-> DepList(deps), attempts |-> 0, max_attempts |-> 2]

CompletedTask(id, prio) ==
    [id |-> id, title |-> id, status |-> "completed", priority |-> prio,
     depends_on |-> DepList({}), attempts |-> 0, max_attempts |-> 2]

ClaimedTask(id, prio, att, by, at, exp) ==
    [id |-> id, title |-> id, status |-> "in_progress", priority |-> prio,
     depends_on |-> DepList({}), attempts |-> att, max_attempts |-> 2,
     claimed_by |-> by, claimed_at |-> at, lease_expires_at |-> exp]

\* the documents the engine is started on: ids unique, lease fields exactly
\* on the in_progress tasks
InitTaskLists ==
    { <<PendingTask("A", "P1", {}), PendingTask("B", "P0", {"A"})>>,
      <<ClaimedTask("A", "P1", 0, "w1", 0, 2), PendingTask("B", "P0", {})>>,
      <<ClaimedTask("A", "P1", 1, "w1", 0, 2), CompletedTask("B", "P0")>> }

Modes == {"exclusive", "concurrent"}

Init ==
    /\ clock = 0
    /\ lockdir \in {NoDir, [exists |-> TRUE, pid |-> DeadPid]}
    /\ \E ts \in InitTaskLists, m \in Modes : doc = FileOf([tasks |-> ts, mode |-> m])
    /\ bak = NoFile
    /\ tmp = NoFile
    /\ tmpOpen = {}
    /\ docOpen = {}
    /\ pc = [p \in Procs |-> "idle"]
    /\ op = [p \in Procs |-> ""]
    /\ wid = [p \in Procs |-> ""]
    /\ tid = [p \in Procs |-> NoTask]
    /\ deadline = [p \in Procs |-> 0]
    /\ missing = [p \in Procs |-> NoTime]
    /\ st = [p \in Procs |-> EmptyDoc]
    /\ base = [p \in Procs |-> EmptyDoc]
    /\ nowv = [p \in Procs |-> 0]
    /\ phase = [p \in Procs |-> ""]
    /\ res = [p \in Procs |-> NoRes]
    /\ reap = ReapIdle
    /\ sel = SelIdle
    /\ gate = GateIdle
    /\ ralph = RalphIdle

\* ------------------------------------------------------------ invocation
RenewIds == TaskIds \cup {"Z", NoTask}

\* main of harness-claim.py up to the call of _acquire_lock
StartClaim(p) ==
    /\ pc[p] = "idle"
    /\ \E w \in {WorkerOf(p), ""} :
         wid' = [wid EXCEPT ![p] = w]
    /\ op' = [op EXCEPT ![p] = "claim"]
    /\ deadline' = [deadline EXCEPT ![p] = clock + LockTimeoutTicks]
    /\ missing' = [missing EXCEPT ![p] = NoTime]
    /\ pc' = [pc EXCEPT ![p] = "acquire"]
    /\ UNCHANGED <<reap, sel, gate, ralph, clock, lockdir, fsVars, tid, memVars, res>>

\* main of harness-renew.py up to the call of _acquire_lock
StartRenew(p) ==
    /\ pc[p] = "idle"
    /\ op' = [op EXCEPT ![p] = "renew"]
    /\ \E w \in {WorkerOf(p), ""}, t \in RenewIds :
         /\ wid' = [wid EXCEPT ![p] = w]
         /\ tid' = [tid EXCEPT ![p] = t]
         /\ IF t = NoTask
            THEN /\ res' = [res EXCEPT ![p] = [kind |-> "missing_task_id", task |-> NoTask]]
                 /\ pc' = [pc EXCEPT ![p] = "done"]
                 /\ UNCHANGED lockVars
            ELSE IF w = ""
            THEN /\ res' = [res EXCEPT ![p] = [kind |-> "missing_identity", task |-> t]]
                 /\ pc' = [pc EXCEPT ![p] = "done"]
                 /\ UNCHANGED lockVars
            ELSE /\ deadline' = [deadline EXCEPT ![p] = clock + LockTimeoutTicks]
                 /\ missing' = [missing EXCEPT ![p] = NoTime]
                 /\ pc' = [pc EXCEPT ![p] = "acquire"]
                 /\ UNCHANGED res
    /\ UNCHANGED <<reap, sel, gate, ralph, clock, lockdir, fsVars, memVars>>

\* --------------------------------------------------------- _acquire_lock
\* An exception leaving _acquire_lock: harness-claim.py lets it escape main
\* (the call is outside the try), harness-renew.py prints it; neither
\* releases.
AcquireFails(p, kind) ==
    /\ res' = [res EXCEPT ![p] = [kind |-> kind, task |-> NoTask]]
    /\ pc' = [pc EXCEPT ![p] = "done"]

\* lockdir.mkdir succeeds
Mkdir(p) ==
    /\ pc[p] = "acquire"
    /\ ~lockdir.exists
    /\ lockdir' = [exists |-> TRUE, pid |-> NoPid]
    /\ pc' = [pc EXCEPT ![p] = "writepid"]
    /\ UNCHANGED <<reap, sel, gate, ralph, clock, fsVars, envVars, lockVars, memVars, res>>

\* (lockdir / "pid").write_text(str(os.getpid())); return
WritePid(p) ==
    /\ pc[p] = "writepid"
    /\ IF lockdir.exists
       THEN /\ lockdir' = [lockdir EXCEPT !.pid = p]
            /\ pc' = [pc EXCEPT ![p] = "locked"]
            /\ UNCHANGED res
       ELSE /\ AcquireFails(p, "exception")
            /\ UNCHANGED lockdir
    /\ UNCHANGED <<reap, sel, gate, ralph, clock, fsVars, envVars, lockVars, memVars>>

\* LockBusy that removes the lock directory of a live holder on timeout
LockBusy_TimeoutRemoves(p) ==
    /\ pc[p] = "acquire"
    /\ lockdir.exists
    /\ IF lockdir.pid = NoPid
       THEN LET since == IF missing[p] = NoTime THEN clock ELSE missing[p]
            IN  /\ missing' = [missing EXCEPT ![p] = since]
                /\ UNCHANGED lockdir
                /\ IF clock - since < MissingPidWindow
                   THEN IF clock >= deadline[p]
                        THEN AcquireFails(p, "timeout")
                        ELSE UNCHANGED <<pc, res>>
                   ELSE /\ pc' = [pc EXCEPT ![p] = "rename"]
                        /\ UNCHANGED res
       ELSE /\ missing' = [missing EXCEPT ![p] = NoTime]
            /\ IF PidAlive(lockdir.pid)
               THEN IF clock >= deadline[p]
                    THEN AcquireFails(p, "timeout") /\ lockdir' = NoDir
                    ELSE UNCHANGED <<pc, res, lockdir>>
               ELSE /\ pc' = [pc EXCEPT ![p] = "rename"]
                    /\ UNCHANGED <<res, lockdir>>
    /\ UNCHANGED <<reap, sel, gate, ralph, clock, fsVars, envVars, deadline, memVars>>

\* lockdir.mkdir raises FileExistsError: read the pid and decide
LockBusy(p) ==
    /\ pc[p] = "acquire"
    /\ lockdir.exists
    /\ IF lockdir.pid = NoPid
       THEN LET since == IF missing[p] = NoTime THEN clock ELSE missing[p]
            IN  /\ missing' = [missing EXCEPT ![p] = since]
                /\ IF clock - since < MissingPidWindow
                   THEN IF clock >= deadline[p]
                        THEN AcquireFails(p, "timeout")
                        ELSE UNCHANGED <<pc, res>>
                   ELSE /\ pc' = [pc EXCEPT ![p] = "rename"]
                        /\ UNCHANGED res
       ELSE /\ missing' = [missing EXCEPT ![p] = NoTime]
            /\ IF PidAlive(lockdir.pid)
               THEN IF clock >= deadline[p]
                    THEN AcquireFails(p, "timeout")
                    ELSE UNCHANGED <<pc, res>>
               ELSE /\ pc' = [pc EXCEPT ![p] = "rename"]
                    /\ UNCHANGED res
    /\ UNCHANGED <<reap, sel, gate, ralph, clock, lockdir, fsVars, envVars, deadline, memVars>>

\* lockdir.rename(stale); shutil.rmtree(stale): whatever directory is at
\* the lock path now is moved aside and deleted
RenameStale(p) ==
    /\ pc[p] = "rename"
    /\ IF lockdir.exists
       THEN /\ lockdir' = NoDir
            /\ missing' = [missing EXCEPT ![p] = NoTime]
            /\ pc' = [pc EXCEPT ![p] = "acquire"]
            /\ UNCHANGED res
       ELSE /\ IF clock >= deadline[p]
               THEN AcquireFails(p, "timeout")
               ELSE /\ pc' = [pc EXCEPT ![p] = "acquire"]
                    /\ UNCHANGED res
            /\ UNCHANGED <<lockdir, missing>>
    /\ UNCHANGED <<reap, sel, gate, ralph, clock, fsVars, envVars, deadline, memVars>>

\* _release_lock: shutil.rmtree(lockdir, ignore_errors=True)
ReleaseLock(p) ==
    /\ pc[p] = "release"
    /\ lockdir' = NoDir
    /\ pc' = [pc EXCEPT ![p] = "done"]
    /\ UNCHANGED <<reap, sel, gate, ralph, clock, fsVars, envVars, lockVars, memVars, res>>

\* ------------------------------------------------------------------ Claim
\* StampTask without claimed_at
StampTask_NoClaimedAt(t, w, now) ==
    Put(Put(Put(t, "status", "in_progress"),
            "claimed_by", w),
        "lease_expires_at", IsoZ(now + LeaseTicks))

\* the stamping of main, lines "task[...] = ..." of harness-claim.py
StampTask(t, w, now) ==
    Put(Put(Put(Put(t, "status", "in_progress"),
                "claimed_by", w),
            "claimed_at", IsoZ(now)),
        "lease_expires_at", IsoZ(now + LeaseTicks))

\* SelectAndStamp without the check of the worker identity
SelectAndStamp_NoIdentityCheck(p, d, now) ==
    LET n == NextTask(d.tasks)
        w == IF wid[p] = "" THEN HostPid(p) ELSE wid[p]
    IN  IF n = 0
        THEN [st |-> d, pc |-> "release", phase |-> "",
              res |-> [kind |-> "nothing", task |-> NoTask]]
        ELSE [st |-> [d EXCEPT !.tasks[n] = StampTask(d.tasks[n], w, now)],
              pc |-> "bak", phase |-> "final",
              res |-> [kind |-> "claiming", task |-> Get(d.tasks[n], "id", "")]]

\* main of harness-claim.py from _eligible_tasks to the last
\* _atomic_write_json (not included): the in-memory document, where the
\* process goes next and what it has decided to print
SelectAndStamp(p, d, now) ==
    LET n == NextTask(d.tasks)
        w == IF wid[p] = "" THEN HostPid(p) ELSE wid[p]
    IN  IF n = 0
        THEN [st |-> d, pc |-> "release", phase |-> "",
              res |-> [kind |-> "nothing", task |-> NoTask]]
        ELSE IF d.mode = "concurrent" /\ wid[p] = ""
        THEN [st |-> d, pc |-> "release", phase |-> "",
              res |-> [kind |-> "missing_identity", task |-> NoTask]]
        ELSE [st |-> [d EXCEPT !.tasks[n] = StampTask(d.tasks[n], w, now)],
              pc |-> "bak", phase |-> "final",
              res |-> [kind |-> "claiming", task |-> Get(d.tasks[n], "id", "")]]

Continue(p, o) ==
    /\ st' = [st EXCEPT ![p] = o.st]
    /\ pc' = [pc EXCEPT ![p] = o.pc]
    /\ phase' = [phase EXCEPT ![p] = o.phase]
    /\ res' = [res EXCEPT ![p] = o.res]

\* the exception leaves main without a finally clause
BodyFails_NoRelease(p) ==
    /\ res' = [res EXCEPT ![p] = [kind |-> "exception", task |-> NoTask]]
    /\ pc' = [pc EXCEPT ![p] = "done"]

\* an exception inside the try of main: the finally clause releases
BodyFails(p) ==
    /\ res' = [res EXCEPT ![p] = [kind |-> "exception", task |-> NoTask]]
    /\ pc' = [pc EXCEPT ![p] = "release"]

\* main of harness-claim.py: _load_state, now, _reap_stale_leases and, when
\* nothing was reaped, selection and stamping
LoadClaim(p) ==
    /\ pc[p] = "locked"
    /\ op[p] = "claim"
    /\ IF ~doc.complete
       THEN /\ BodyFails(p)
            /\ UNCHANGED <<st, base, nowv, phase>>
       ELSE LET d == [doc.data EXCEPT !.tasks = DictTasks(doc.data.tasks)]
            IN  /\ nowv' = [nowv EXCEPT ![p] = clock]
                /\ base' = [base EXCEPT ![p] = d]
                /\ IF ReapChanged(d.tasks, clock)
                   THEN /\ st' = [st EXCEPT ![p] =
                              [d EXCEPT !.tasks = ReapStaleLeases(d.tasks, clock)]]
                        /\ phase' = [phase EXCEPT ![p] = "reap"]
                        /\ pc' = [pc EXCEPT ![p] = "bak"]
                        /\ UNCHANGED res
                   ELSE Continue(p, SelectAndStamp(p, d, clock))
    /\ UNCHANGED <<reap, sel, gate, ralph, clock, lockdir, fsVars, envVars, lockVars>>

\* ------------------------------------------------------------------ Renew
\* FindTask that never finds the task
FindTask_Never(tasks, id) == 0

\* next((t for t in tasks if str(t.get("id") or "") == task_id), None)
FindTask(tasks, id) ==
    IF \E i \in DOMAIN tasks : Get(tasks[i], "id", "") = id
    THEN CHOOSE i \in DOMAIN tasks :
            /\ Get(tasks[i], "id", "") = id
            /\ \A j \in DOMAIN tasks : Get(tasks[j], "id", "") = id => i <= j
    ELSE 0

\* LoadRenew that refuses a task whose lease has run out
LoadRenew_ChecksExpiry(p) ==
    /\ pc[p] = "locked"
    /\ op[p] = "renew"
    /\ IF ~doc.complete
       THEN /\ BodyFails(p)
            /\ UNCHANGED <<st, base, nowv, phase>>
       ELSE LET d == [doc.data EXCEPT !.tasks = DictTasks(doc.data.tasks)]
                n == FindTask(d.tasks, tid[p])
                out(k) == /\ res' = [res EXCEPT ![p] = [kind |-> k, task |-> tid[p]]]
                          /\ pc' = [pc EXCEPT ![p] = "release"]
                          /\ st' = [st EXCEPT ![p] = d]
                          /\ UNCHANGED <<base, nowv, phase>>
            IN  IF n = 0 THEN out("not_found")
                ELSE IF Status(d.tasks[n]) # "in_progress" THEN out("not_in_progress")
                ELSE IF Get(d.tasks[n], "claimed_by", "") \notin {"", wid[p]}
                     THEN out("owned_by_other")
                ELSE IF LeaseExpired(d.tasks[n], clock) THEN out("not_in_progress")
                ELSE /\ nowv' = [nowv EXCEPT ![p] = clock]
                     /\ base' = [base EXCEPT ![p] = d]
                     /\ st' = [st EXCEPT ![p] = [d EXCEPT !.tasks[n] =
                            Put(Put(d.tasks[n], "lease_expires_at", IsoZ(clock + LeaseTicks)),
                                "claimed_by", wid[p])]]
                     /\ phase' = [phase EXCEPT ![p] = "final"]
                     /\ pc' = [pc EXCEPT ![p] = "bak"]
                     /\ res' = [res EXCEPT ![p] = [kind |-> "renewing", task |-> tid[p]]]
    /\ UNCHANGED <<reap, sel, gate, ralph, clock, lockdir, fsVars, envVars, lockVars>>

\* main of harness-renew.py from _load_state to the _atomic_write_json call
LoadRenew(p) ==
    /\ pc[p] = "locked"
    /\ op[p] = "renew"
    /\ IF ~doc.complete
       THEN /\ BodyFails(p)
            /\ UNCHANGED <<st, base, nowv, phase>>
       ELSE LET d == [doc.data EXCEPT !.tasks = DictTasks(doc.data.tasks)]
                n == FindTask(d.tasks, tid[p])
                out(k) == /\ res' = [res EXCEPT ![p] = [kind |-> k, task |-> tid[p]]]
                          /\ pc' = [pc EXCEPT ![p] = "release"]
                          /\ st' = [st EXCEPT ![p] = d]
                          /\ UNCHANGED <<base, nowv, phase>>
            IN  IF n = 0 THEN out("not_found")
                ELSE IF Status(d.tasks[n]) # "in_progress" THEN out("not_in_progress")
                ELSE IF Get(d.tasks[n], "claimed_by", "") \notin {"", wid[p]}
                     THEN out("owned_by_other")
                ELSE /\ nowv' = [nowv EXCEPT ![p] = clock]
                     /\ base' = [base EXCEPT ![p] = d]
                     /\ st' = [st EXCEPT ![p] = [d EXCEPT !.tasks[n] =
                            Put(Put(d.tasks[n], "lease_expires_at", IsoZ(clock + LeaseTicks)),
                                "claimed_by", wid[p])]]
                     /\ phase' = [phase EXCEPT ![p] = "final"]
                     /\ pc' = [pc EXCEPT ![p] = "bak"]
                     /\ res' = [res EXCEPT ![p] = [kind |-> "renewing", task |-> tid[p]]]
    /\ UNCHANGED <<reap, sel, gate, ralph, clock, lockdir, fsVars, envVars, lockVars>>

\* ------------------------------------------------------ _atomic_write_json
\* shutil.copy2(path, bak)
SaveBak(p) ==
    /\ pc[p] = "bak"
    /\ bak' = doc
    /\ pc' = [pc EXCEPT ![p] = "open"]
    /\ UNCHANGED <<reap, sel, gate, ralph, clock, lockdir, doc, tmp, tmpOpen, docOpen, envVars, lockVars, memVars, res>>

\* tmp.write_text(...), first half: open() creates or truncates the file
SaveOpen(p) ==
    /\ pc[p] = "open"
    /\ tmp' = [exists |-> TRUE, complete |-> FALSE, data |-> st[p]]
    /\ tmpOpen' = (IF tmp.exists THEN tmpOpen ELSE {}) \cup {p}
    /\ pc' = [pc EXCEPT ![p] = "write"]
    /\ UNCHANGED <<reap, sel, gate, ralph, clock, lockdir, doc, bak, docOpen, envVars, lockVars, memVars, res>>

\* tmp.write_text(...), second half: the text is written to the open file
\* and the file is closed; the file may have been renamed meanwhile.  Of
\* several writers of one file the last to close determines the content.
SaveWrite(p) ==
    /\ pc[p] = "write"
    /\ tmp' = IF p \in tmpOpen
              THEN [exists |-> TRUE, complete |-> tmpOpen = {p}, data |-> st[p]]
              ELSE tmp
    /\ doc' = IF p \in docOpen
              THEN [exists |-> TRUE, complete |-> docOpen = {p}, data |-> st[p]]
              ELSE doc
    /\ tmpOpen' = tmpOpen \ {p}
    /\ docOpen' = docOpen \ {p}
    /\ pc' = [pc EXCEPT ![p] = "replace"]
    /\ UNCHANGED <<reap, sel, gate, ralph, clock, lockdir, bak, envVars, lockVars, memVars, res>>

\* os.replace(tmp, path), and what main does after _atomic_write_json
SaveReplace(p) ==
    /\ pc[p] = "replace"
    /\ IF tmp.exists
       THEN /\ doc' = tmp
            /\ docOpen' = tmpOpen
            /\ tmp' = NoFile
            /\ tmpOpen' = {}
            /\ base' = [base EXCEPT ![p] = st[p]]
            /\ IF op[p] = "claim" /\ phase[p] = "reap"
               THEN Continue(p, SelectAndStamp(p, st[p], nowv[p]))
               ELSE /\ res' = [res EXCEPT ![p].kind =
                               IF op[p] = "claim" THEN "claimed" ELSE "renewed"]
                    /\ pc' = [pc EXCEPT ![p] = "release"]
                    /\ UNCHANGED <<st, phase>>
       ELSE /\ BodyFails(p)
            /\ UNCHANGED <<fsVars, st, base, phase>>
    /\ UNCHANGED <<reap, sel, gate, ralph, clock, lockdir, bak, envVars, lockVars, nowv>>

\* ------------------------------------------------------------ environment
\* the process is killed; what it left on disk stays
Crash(p) ==
    /\ pc[p] \notin {"idle", "done", "crashed"}
    /\ pc' = [pc EXCEPT ![p] = "crashed"]
    /\ tmpOpen' = tmpOpen \ {p}
    /\ docOpen' = docOpen \ {p}
    /\ UNCHANGED <<reap, sel, gate, ralph, clock, lockdir, doc, bak, tmp, envVars, lockVars, memVars, res>>

Tick ==
    /\ clock < MaxClock
    /\ clock' = clock + 1
    /\ UNCHANGED <<reap, sel, gate, ralph, lockdir, fsVars, pc, envVars, lockVars, memVars, res>>

Next ==
    \/ Tick
    \/ \E p \in Procs :
        \/ StartClaim(p)
        \/ StartRenew(p)
        \/ Mkdir(p)
        \/ WritePid(p)
        \/ LockBusy(p)
        \/ RenameStale(p)
        \/ LoadClaim(p)
        \/ LoadRenew(p)
        \/ SaveBak(p)
        \/ SaveOpen(p)
        \/ SaveWrite(p)
        \/ SaveReplace(p)
        \/ ReleaseLock(p)
        \/ Crash(p)

Spec == Init /\ [][Next]_vars

\* ================================== _reap_stale_leases on drawn inputs
MaxInLease == 2          \* largest lease_expires_at of a drawn task
MaxNow == 2              \* largest "now" handed to _reap_stale_leases
MaxInAttempts == 1       \* largest attempts of a drawn task

Statuses == {"pending", "in_progress", "completed", "failed"}

\* a drawn task; lease NoTime, owner "" and log "absent" leave the field out
DrawnTask(id, s, a, l, c, e) ==
    LET t0 == [id |-> id, status |-> s, attempts |-> a]
        t1 == IF l = NoTime THEN t0 ELSE Put(t0, "lease_expires_at", l)
        t2 == IF c = "" THEN t1 ELSE Put(Put(t1, "claimed_by", c), "claimed_at", 0)
    IN  IF e = "absent" THEN t2
        ELSE IF e = "nonlist" THEN Put(t2, "error_log", NoLog)
        ELSE Put(t2, "error_log", [islist |-> TRUE, items |-> <<"old">>])

DrawnTasks(id) ==
    {DrawnTask(id, s, a, l, c, e) :
        s \in Statuses, a \in 0..MaxInAttempts,
        l \in {NoTime, BadTs} \cup 0..MaxInLease,
        c \in {"", "w1"}, e \in {"absent", "nonlist", "list"}}

InitReap ==
    /\ clock = 0
    /\ lockdir = NoDir
    /\ doc = FileOf(EmptyDoc)
    /\ bak = NoFile
    /\ tmp = NoFile
    /\ tmpOpen = {}
    /\ docOpen = {}
    /\ pc = [p \in Procs |-> "idle"]
    /\ op = [p \in Procs |-> ""]
    /\ wid = [p \in Procs |-> ""]
    /\ tid = [p \in Procs |-> NoTask]
    /\ deadline = [p \in Procs |-> 0]
    /\ missing = [p \in Procs |-> NoTime]
    /\ st = [p \in Procs |-> EmptyDoc]
    /\ base = [p \in Procs |-> EmptyDoc]
    /\ nowv = [p \in Procs |-> 0]
    /\ phase = [p \in Procs |-> ""]
    /\ res = [p \in Procs |-> NoRes]
    /\ \E a \in DrawnTasks("A"), b \in DrawnTasks("B"), n \in 0..MaxNow :
         reap = [ReapIdle EXCEPT !.in = <<a, b>>, !.now = n]
    /\ sel = SelIdle
    /\ gate = GateIdle
    /\ ralph = RalphIdle

engineVars == <<clock, lockdir, doc, bak, tmp, tmpOpen, docOpen, pc, op, wid, tid,
                deadline, missing, st, base, nowv, phase, res>>

\* changed = _reap_stale_leases(tasks, now)
ReapFirst ==
    /\ reap.stage = 0
    /\ reap' = [reap EXCEPT !.stage = 1,
                            !.out = ReapStaleLeases(reap.in, reap.now),
                            !.changed = ReapChanged(reap.in, reap.now)]
    /\ UNCHANGED <<engineVars, sel, gate, ralph>>

\* _reap_stale_leases again on the same list, at the same or a later now
ReapSecond ==
    /\ reap.stage = 1
    /\ \E n \in reap.now..MaxNow :
         reap' = [reap EXCEPT !.stage = 2,
                              !.now2 = n,
                              !.out2 = ReapStaleLeases(reap.out, n),
                              !.changed2 = ReapChanged(reap.out, n)]
    /\ UNCHANGED <<engineVars, sel, gate, ralph>>

NextReap == ReapFirst \/ ReapSecond

SpecReap == InitReap /\ [][NextReap]_vars

\* ===================================== _eligible_tasks on drawn inputs
MaxSelAttempts == 1      \* largest attempts of a drawn failed task

\* ids of the drawn tasks, in document order (which is not their str order)
SelIds == <<"t2", "t10", "t9">>
\* an id that no task has
AbsentId == "zz"

SelPriorities == {"P0", "P2", "low"}

\* status and attempts of a drawn task: attempts count the failures
SelProgress ==
    {<<s, 0>> : s \in Statuses} \cup {<<"failed", a>> : a \in 1..MaxSelAttempts}

\* depends_on of the task at position i: nothing, the next task, the
\* previous one, both, or an id that no task has
SelDeps(i) ==
    LET nxt == SelIds[(i % Len(SelIds)) + 1]
        prv == SelIds[((i + Len(SelIds) - 2) % Len(SelIds)) + 1]
    IN  {{}, {nxt}, {prv}, {nxt, prv}, {AbsentId}}

SelTasks(i) ==
    {[id |-> SelIds[i], title |-> SelIds[i], status |-> sa[1], priority |-> pr,
      depends_on |-> DepList(ds), attempts |-> sa[2], max_attempts |-> 1] :
        sa \in SelProgress, pr \in SelPriorities, ds \in SelDeps(i)}

InitSelect ==
    /\ clock = 0
    /\ lockdir = NoDir
    /\ doc = FileOf(EmptyDoc)
    /\ bak = NoFile
    /\ tmp = NoFile
    /\ tmpOpen = {}
    /\ docOpen = {}
    /\ pc = [p \in Procs |-> "idle"]
    /\ op = [p \in Procs |-> ""]
    /\ wid = [p \in Procs |-> ""]
    /\ tid = [p \in Procs |-> NoTask]
    /\ deadline = [p \in Procs |-> 0]
    /\ missing = [p \in Procs |-> NoTime]
    /\ st = [p \in Procs |-> EmptyDoc]
    /\ base = [p \in Procs |-> EmptyDoc]
    /\ nowv = [p \in Procs |-> 0]
    /\ phase = [p \in Procs |-> ""]
    /\ res = [p \in Procs |-> NoRes]
    /\ reap = ReapIdle
    /\ gate = GateIdle
    /\ ralph = RalphIdle
    /\ \E a \in SelTasks(1), b \in SelTasks(2), c \in SelTasks(3) :
         sel = [SelIdle EXCEPT !.tasks = <<a, b, c>>]

\* pending, retry = _eligible_tasks(tasks); task = pending[0] if ...
SelectFirst ==
    /\ sel.stage = 0
    /\ sel' = [sel EXCEPT !.stage = 1,
                          !.pending = EligibleTasks(sel.tasks).pending,
                          !.retry = EligibleTasks(sel.tasks).retry,
                          !.next = NextTask(sel.tasks)]
    /\ UNCHANGED <<engineVars, reap, gate, ralph>>

\* the same call again on the unchanged list, and what main of
\* harness-claim.py (exclusive mode, now 0) does with the selection
SelectAgain ==
    /\ sel.stage = 1
    /\ LET o == SelectAndStamp("p1", [tasks |-> sel.tasks, mode |-> "exclusive"], 0)
       IN  sel' = [sel EXCEPT !.stage = 2,
                              !.again = NextTask(sel.tasks),
                              !.claim = o.res,
                              !.stamped = o.st.tasks]
    /\ UNCHANGED <<engineVars, reap, gate, ralph>>

NextSelect == SelectFirst \/ SelectAgain

SpecSelect == InitSelect /\ [][NextSelect]_vars

\* ============================= eligibility of tasks with drawn fields
MaxEligAttempts == 3     \* largest attempts of a drawn task

\* a drawn field with this value is left out of the task
NoField == 0 - 3

EligIds == <<"A", "B">>

\* max_attempts of a drawn task: absent, 0 or 2
EligMax == {NoField, 0, 2}

\* depends_on of the task at position i: absent, [], the other task, or a
\* value that is not a list, truthy ("x", 1, {"a": 1}) or falsy ("", 0, {})
EligDeps(i) ==
    {[kind |-> "absent", ids |-> {}], DepList({}), DepList({EligIds[3 - i]}),
     [kind |-> "truthy", ids |-> {}], [kind |-> "falsy", ids |-> {}]}

EligTask(i, s, a, mx, d) ==
    LET t0 == [id |-> EligIds[i], title |-> EligIds[i], status |-> s,
               priority |-> "P1", attempts |-> a]
        t1 == IF mx = NoField THEN t0 ELSE Put(t0, "max_attempts", mx)
    IN  IF d.kind = "absent" THEN t1 ELSE Put(t1, "depends_on", d)

EligTasks(i) ==
    {EligTask(i, s, a, mx, d) :
        s \in Statuses, a \in 0..MaxEligAttempts, mx \in EligMax, d \in EligDeps(i)}

\* no invocation of Claim or Renew is under way
EngineAtRest ==
    /\ clock = 0
    /\ lockdir = NoDir
    /\ doc = FileOf(EmptyDoc)
    /\ bak = NoFile
    /\ tmp = NoFile
    /\ tmpOpen = {}
    /\ docOpen = {}
    /\ pc = [p \in Procs |-> "idle"]
    /\ op = [p \in Procs |-> ""]
    /\ wid = [p \in Procs |-> ""]
    /\ tid = [p \in Procs |-> NoTask]
    /\ deadline = [p \in Procs |-> 0]
    /\ missing = [p \in Procs |-> NoTime]
    /\ st = [p \in Procs |-> EmptyDoc]
    /\ base = [p \in Procs |-> EmptyDoc]
    /\ nowv = [p \in Procs |-> 0]
    /\ phase = [p \in Procs |-> ""]
    /\ res = [p \in Procs |-> NoRes]

InitEligible ==
    /\ EngineAtRest
    /\ reap = ReapIdle
    /\ gate = GateIdle
    /\ ralph = RalphIdle
    /\ \E a \in EligTasks(1), b \in EligTasks(2) :
         sel = [SelIdle EXCEPT !.tasks = <<a, b>>]

SpecEligible == InitEligible /\ [][NextSelect]_vars

\* ================================== the stop hook (harness-stop.py main)
MaxGateCalls == 3        \* invocations of the stop hook in one behaviour
MaxGateNow == 3          \* latest time of an invocation, in ticks

\* a lease_expires_at that no invocation reaches
GateFarLease == TicksPerSecond * (MaxGateNow + 1)

\* HARNESS_WORKER_ID of the caller of the hook; "" is unset or empty
GateWorkers == {"", "w1", "w2"}

\* HARNESS_STOP_TIMEOUT_SECONDS, in ticks: unset, "0", or "1" (a second)
GateTimeouts == {NoField, 0, 2}

\* the form of harness-tasks.json: "list" has a list under "tasks" (or no
\* "tasks"), "falsy" has a falsy value there that is not a list (0, "", {}),
\* "bad" is not JSON, not an object, or has a truthy non-list under "tasks"
GateShapes == {"list", "falsy", "bad"}

\* the task at position i of a drawn document
GateTasks(i) ==
    LET id == EligIds[i]
        other == EligIds[3 - i]
        prios == IF i = 1 THEN {"P0", "P2"} ELSE {"P1"}
        failed(pr, a) == [PendingTask(id, pr, {}) EXCEPT !.status = "failed", !.attempts = a]
        claimed(pr, by, exp) ==
            IF by = "" THEN Pop(ClaimedTask(id, pr, 0, by, 0, exp), {"claimed_by"})
            ELSE ClaimedTask(id, pr, 0, by, 0, exp)
    IN  UNION {
          {PendingTask(id, pr, ds) : ds \in {{}, {other}}}
          \cup {failed(pr, a) : a \in {1, 2}}
          \cup {claimed(pr, by, exp) : by \in GateWorkers, exp \in {0, GateFarLease}}
          \cup {CompletedTask(id, pr)} : pr \in prios}

\* the content of .harness-stop-counter
NoCounter == [present |-> FALSE, blocks |-> 0, completed |-> 0, first |-> NoTime]
CounterOf(b, c, f) == [present |-> TRUE, blocks |-> b, completed |-> c, first |-> f]

\* StopTimeoutSeconds with a default of one tick
StopTimeoutSeconds_DefaultOne(raw) == IF raw # NoField /\ raw > 0 THEN raw ELSE 1

\* _stop_timeout_seconds: None (NoTime) unless the variable is a number > 0
StopTimeoutSeconds(raw) == IF raw # NoField /\ raw > 0 THEN raw ELSE NoTime

\* _read_block_counter: (0, 0, None) when the file cannot be read
ReadBlockCounter(c) ==
    IF c.present THEN [blocks |-> c.blocks, completed |-> c.completed, first |-> c.first]
    ELSE [blocks |-> 0, completed |-> 0, first |-> NoTime]

\* _deps_completed
DepsCompleted(t, completed) ==
    LET deps == Get(t, "depends_on", DepList({}))
    IN  IF deps.kind = "falsy" THEN TRUE
        ELSE IF deps.kind # "list" THEN FALSE
        ELSE \A d \in deps.ids : d \in completed

\* completed_ids, pending_eligible and retryable of main, as sets of indexes
GateCompletedIds(tasks) ==
    {Get(tasks[i], "id", "") : i \in {j \in DOMAIN tasks : Get(tasks[j], "status", "") = "completed"}}

\* GatePendingEligible that finds no pending task eligible
GatePendingEligible_None(tasks) == {}

\* pending_eligible of main
GatePendingEligible(tasks) ==
    {i \in DOMAIN tasks :
        /\ Get(tasks[i], "status", "") = "pending"
        /\ DepsCompleted(tasks[i], GateCompletedIds(tasks))}

GateRetryable(tasks) ==
    {i \in DOMAIN tasks :
        /\ Get(tasks[i], "status", "") = "failed"
        /\ Get(tasks[i], "attempts", 0) < Get(tasks[i], "max_attempts", 3)
        /\ DepsCompleted(tasks[i], GateCompletedIds(tasks))}

\* InProgressBlocking that lets every in_progress task block
InProgressBlocking_Any(tasks, mode, w) ==
    {i \in DOMAIN tasks : Get(tasks[i], "status", "") = "in_progress"}

\* in_progress_blocking of main
InProgressBlocking(tasks, mode, w) ==
    LET any == {i \in DOMAIN tasks : Get(tasks[i], "status", "") = "in_progress"}
    IN  IF mode = "concurrent" /\ w # ""
        THEN {i \in any : Get(tasks[i], "claimed_by", "") \in {w, ""}}
        ELSE any

\* the head of the indexes S sorted by key(t) = (priority rank, id); sort is
\* stable, so of equal keys the first in document order comes first
HeadByKey(tasks, S) ==
    CHOOSE i \in S : \A j \in S \ {i} :
        LET ki == <<PriorityRank(Get(tasks[i], "priority", "")), IdOrd(Get(tasks[i], "id", ""))>>
            kj == <<PriorityRank(Get(tasks[j], "priority", "")), IdOrd(Get(tasks[j], "id", ""))>>
        IN  \/ ki[1] < kj[1]
            \/ ki[1] = kj[1] /\ ki[2] < kj[2]
            \/ ki = kj /\ i < j

\* PickNext that prefers the retryable tasks
PickNext_RetryFirst(tasks, pending, retry) ==
    IF retry # {} THEN HeadByKey(tasks, retry)
    ELSE IF pending # {} THEN HeadByKey(tasks, pending)
    ELSE 0

\* _pick_next: an index into tasks, 0 is None
PickNext(tasks, pending, retry) ==
    IF pending # {} THEN HeadByKey(tasks, pending)
    ELSE IF retry # {} THEN HeadByKey(tasks, retry)
    ELSE 0

\* _pick_next_eligible of harness-sessionstart.py: an index, 0 is None
PickNextEligible(tasks) ==
    LET completed == {Get(tasks[i], "id", "") :
                        i \in {j \in DOMAIN tasks : Get(tasks[j], "status", "") = "completed"}}
        pending == {i \in DOMAIN tasks :
                      /\ Get(tasks[i], "status", "") = "pending"
                      /\ DepsCompleted(tasks[i], completed)}
        retry == {i \in DOMAIN tasks :
                    /\ Get(tasks[i], "status", "") = "failed"
                    /\ Get(tasks[i], "attempts", 0) < Get(tasks[i], "max_attempts", 3)
                    /\ DepsCompleted(tasks[i], completed)}
    IN  IF pending # {} THEN HeadByKey(tasks, pending)
        ELSE IF retry # {} THEN HeadByKey(tasks, retry)
        ELSE 0

\* str(next_task.get("id") or "") of the task at index n, NoTask for None
HintOf(tasks, n) == IF n = 0 THEN NoTask ELSE Get(tasks[n], "id", "")

InitGate ==
    /\ EngineAtRest
    /\ reap = ReapIdle
    /\ sel = SelIdle
    /\ ralph = RalphIdle
    /\ \E sh \in GateShapes, m \in Modes, to \in GateTimeouts,
          c \in {NoCounter, CounterOf(2, 1, 1)} :
         \E ts \in IF sh = "list"
                   THEN {<<a, b>> : a \in GateTasks(1), b \in GateTasks(2)}
                   ELSE {<<>>} :
            gate = [GateIdle EXCEPT !.shape = sh, !.tasks = ts, !.mode = m,
                                    !.active = TRUE, !.timeout = to, !.counter = c,
                                    !.now = 1]

\* IsHarnessActive that finds the marker whether or not it is there
IsHarnessActive_Always(g) == TRUE

\* _is_harness_active: .harness-active is a file
IsHarnessActive(g) == g.active

\* ResetBlockCounter that leaves the file in place
ResetBlockCounter_Keeps(c) == c

\* _reset_block_counter: the counter file is unlinked
ResetBlockCounter(c) == NoCounter

\* NextCounter that does not start again when a task was completed
NextCounter_NoReset(prev, completed_count, now) ==
    CounterOf(prev.blocks + 1, completed_count,
              IF prev.first # NoTime THEN prev.first
              ELSE IF now # 0 THEN now ELSE NoTime)

\* what main hands to _write_block_counter: consecutive, completed_count,
\* first_ts (lines 300-307)
NextCounter(prev, completed_count, now) ==
    LET progress == completed_count > prev.completed
        prev_blocks == IF progress THEN 0 ELSE prev.blocks
        prev_first_ts == IF progress THEN NoTime ELSE prev.first
    IN  CounterOf(prev_blocks + 1, completed_count,
                  IF prev_first_ts # NoTime THEN prev_first_ts
                  ELSE IF now # 0 THEN now ELSE NoTime)

\* TimedOut that does not look at stop_hook_active
TimedOut_NoReentrancy(re, timeout_s, first_ts, now) ==
    /\ timeout_s # NoTime /\ first_ts # NoTime /\ now # 0
    /\ now - first_ts >= timeout_s

\* the test of the safety valve (lines 309-311)
TimedOut(re, timeout_s, first_ts, now) ==
    /\ re /\ timeout_s # NoTime /\ first_ts # NoTime /\ now # 0
    /\ now - first_ts >= timeout_s

\* what one run of main decides and leaves behind
GateResult(g, re, w) ==
    LET tasks == IF g.shape = "falsy" THEN <<>> ELSE g.tasks
        completed_count == Cardinality(GateCompletedIds(tasks))
        pending == GatePendingEligible(tasks)
        retry == GateRetryable(tasks)
        blocking == InProgressBlocking(tasks, g.mode, w)
        written == NextCounter(ReadBlockCounter(g.counter), completed_count, g.now)
        out(d, y, n) == [g EXCEPT !.decision = d, !.why = y, !.next = n]
    IN  IF ~IsHarnessActive(g) THEN out("allow", "inactive", NoTask)
        ELSE IF g.shape = "bad"
             THEN IF re THEN out("allow", "corrupt", NoTask)
                  ELSE out("block", "config_error", NoTask)
        ELSE IF pending = {} /\ retry = {} /\ blocking = {}
             THEN [out("allow", "done", NoTask)
                      EXCEPT !.counter = ResetBlockCounter(g.counter), !.active = FALSE]
        ELSE IF TimedOut(re, StopTimeoutSeconds(g.timeout), written.first, g.now)
             THEN [out("allow", "timeout", NoTask)
                      EXCEPT !.counter = ResetBlockCounter(written)]
        ELSE [out("block", "work", HintOf(tasks, PickNext(tasks, pending, retry)))
                 EXCEPT !.counter = written]

\* one invocation of the stop hook: stop_hook_active re, HARNESS_WORKER_ID w
GateCall(re, w) ==
    /\ gate.n < MaxGateCalls
    /\ gate' = [GateResult(gate, re, w) EXCEPT !.n = gate.n + 1, !.re = re, !.w = w]
    /\ UNCHANGED <<engineVars, reap, sel, ralph>>

\* one run of main of harness-sessionstart.py, at the start of the session
SessionStart ==
    /\ gate.n = 0
    /\ gate.summary = ""
    /\ gate' = [gate EXCEPT !.summary =
                  IF ~IsHarnessActive(gate) THEN "silent"
                  ELSE IF gate.shape = "bad" THEN "config_error"
                  ELSE HintOf(IF gate.shape = "falsy" THEN <<>> ELSE gate.tasks,
                              PickNextEligible(IF gate.shape = "falsy" THEN <<>> ELSE gate.tasks))]
    /\ UNCHANGED <<engineVars, reap, sel, ralph>>

\* a worker records the outcome of the task at position i as completed
GateComplete(i) ==
    /\ gate.shape = "list"
    /\ i \in DOMAIN gate.tasks
    /\ gate.tasks[i].status = "in_progress"
    /\ gate' = [gate EXCEPT !.tasks[i] =
                  CompletedTask(gate.tasks[i].id, gate.tasks[i].priority)]
    /\ UNCHANGED <<engineVars, reap, sel, ralph>>

GateTick ==
    /\ gate.now < MaxGateNow
    /\ gate' = [gate EXCEPT !.now = gate.now + 1]
    /\ UNCHANGED <<engineVars, reap, sel, ralph>>

NextGate ==
    \/ \E re \in BOOLEAN, w \in GateWorkers : GateCall(re, w)
    \/ SessionStart
    \/ \E i \in 1..2 : GateComplete(i)
    \/ GateTick

SpecGate == InitGate /\ [][NextGate]_vars

\* =========== the SubagentStop and TeammateIdle hooks next to the stop hook
\* the first in_progress task, in document order, among the indexes S
FirstOf(S) == CHOOSE i \in S : \A j \in S : i <= j

\* main of harness-subagentstop.py: stop_hook_active re, the non-blank ones
\* of HARNESS_WORKER_ID, agent_id and teammate_name ids; kind "allow" is a
\* return without output
SubagentResult(g, re, ids) ==
    LET tasks == IF g.shape = "falsy" THEN <<>> ELSE g.tasks
        in_progress == {i \in DOMAIN tasks : Get(tasks[i], "status", "") = "in_progress"}
        is_concurrent == g.mode = "concurrent"
        owned == IF is_concurrent
                 THEN IF ids # {}
                      THEN {i \in in_progress : Get(tasks[i], "claimed_by", "") \in ids}
                      ELSE {}
                 ELSE in_progress
    IN  IF re \/ ~IsHarnessActive(g) \/ g.shape = "bad" THEN [kind |-> "allow", task |-> NoTask]
        ELSE IF is_concurrent /\ in_progress # {} /\ ids = {}
             THEN [kind |-> "block_no_identity", task |-> NoTask]
        ELSE IF owned # {}
             THEN [kind |-> "block", task |-> Get(tasks[FirstOf(owned)], "id", "")]
        ELSE [kind |-> "allow", task |-> NoTask]

\* main of harness-teammateidle.py: HARNESS_WORKER_ID w, teammate_name tn;
\* kind "block" is exit code 2
TeammateIdleResult(g, w, tn) ==
    LET tasks == IF g.shape = "falsy" THEN <<>> ELSE g.tasks
        completed == {Get(tasks[i], "id", "") :
                        i \in {j \in DOMAIN tasks : Get(tasks[j], "status", "") = "completed"}}
        pending == {i \in DOMAIN tasks :
                      /\ Get(tasks[i], "status", "") = "pending"
                      /\ DepsCompleted(tasks[i], completed)}
        retryable == {i \in DOMAIN tasks :
                        /\ Get(tasks[i], "status", "") = "failed"
                        /\ Get(tasks[i], "attempts", 0) < Get(tasks[i], "max_attempts", 3)
                        /\ DepsCompleted(tasks[i], completed)}
        in_progress == {i \in DOMAIN tasks : Get(tasks[i], "status", "") = "in_progress"}
        owned == IF w # "" \/ tn # ""
                 THEN {i \in in_progress : Get(tasks[i], "claimed_by", "") \in {w, tn}}
                 ELSE {}
    IN  IF ~IsHarnessActive(g) \/ g.shape = "bad" THEN [kind |-> "allow", task |-> NoTask]
        ELSE IF owned # {}
             THEN [kind |-> "block", task |-> Get(tasks[FirstOf(owned)], "id", "")]
        ELSE IF pending # {} \/ retryable # {}
             THEN [kind |-> "block",
                   task |-> Get(tasks[HeadByKey(tasks, IF pending # {} THEN pending
                                                       ELSE retryable)], "id", "")]
        ELSE [kind |-> "allow", task |-> NoTask]

\* the hooks are started with or without the marker .harness-active
InitHooks ==
    /\ EngineAtRest
    /\ reap = ReapIdle
    /\ sel = SelIdle
    /\ ralph = RalphIdle
    /\ \E sh \in GateShapes, m \in Modes, act \in BOOLEAN,
          c \in {NoCounter, CounterOf(2, 1, 1)} :
         \E ts \in IF sh = "list"
                   THEN {<<a, b>> : a \in GateTasks(1), b \in GateTasks(2)}
                   ELSE {<<>>} :
            gate = [GateIdle EXCEPT !.shape = sh, !.tasks = ts, !.mode = m,
                                    !.active = act, !.counter = c, !.now = 1]

\* the first invocation of the stop hook
StopHook(re, w) == gate.n = 0 /\ GateCall(re, w)

SubagentStop(re, ids) ==
    /\ gate.sub = NoRes
    /\ gate' = [gate EXCEPT !.sub = SubagentResult(gate, re, ids)]
    /\ UNCHANGED <<engineVars, reap, sel, ralph>>

TeammateIdle(w, tn) ==
    /\ gate.idle = NoRes
    /\ gate' = [gate EXCEPT !.idle = TeammateIdleResult(gate, w, tn)]
    /\ UNCHANGED <<engineVars, reap, sel, ralph>>

NextHooks ==
    \/ \E re \in BOOLEAN, w \in GateWorkers : StopHook(re, w)
    \/ SessionStart
    \/ \E re \in BOOLEAN, ids \in {{}, {"w1"}, {"w2"}} : SubagentStop(re, ids)
    \/ \E w \in GateWorkers, tn \in {"", "w2"} : TeammateIdle(w, tn)

SpecHooks == InitHooks /\ [][NextHooks]_vars

\* ------------------------------------------------------------- SpecFrame
\* One Claim run alone on documents whose tasks array may hold an entry
\* that is not an object.
FrameTaskLists ==
    InitTaskLists
    \cup { <<NonDict>> \o ts : ts \in InitTaskLists }
    \cup { <<ts[1], NonDict, ts[2]>> : ts \in InitTaskLists }

InitFrame ==
    /\ clock = 0
    /\ lockdir = NoDir
    /\ \E ts \in FrameTaskLists, m \in Modes : doc = FileOf([tasks |-> ts, mode |-> m])
    /\ bak = NoFile
    /\ tmp = NoFile
    /\ tmpOpen = {}
    /\ docOpen = {}
    /\ pc = [p \in Procs |-> "idle"]
    /\ op = [p \in Procs |-> ""]
    /\ wid = [p \in Procs |-> ""]
    /\ tid = [p \in Procs |-> NoTask]
    /\ deadline = [p \in Procs |-> 0]
    /\ missing = [p \in Procs |-> NoTime]
    /\ st = [p \in Procs |-> EmptyDoc]
    /\ base = [p \in Procs |-> EmptyDoc]
    /\ nowv = [p \in Procs |-> 0]
    /\ phase = [p \in Procs |-> ""]
    /\ res = [p \in Procs |-> NoRes]
    /\ reap = ReapIdle
    /\ sel = SelIdle
    /\ gate = GateIdle
    /\ ralph = RalphIdle

NextFrame ==
    \/ Tick
    \/ StartClaim("p1")
    \/ Mkdir("p1")
    \/ WritePid("p1")
    \/ LoadClaim("p1")
    \/ SaveBak("p1")
    \/ SaveOpen("p1")
    \/ SaveWrite("p1")
    \/ SaveReplace("p1")
    \/ ReleaseLock("p1")

SpecFrame == InitFrame /\ [][NextFrame]_vars

\* ------------------------------------------------------------- SpecRenew
\* One Renew run alone.  Task A is in_progress with a lease that ends at
\* tick 0 or tick 2, claimed by the caller, by another worker or by nobody.
RenewTaskLists ==
    { <<ClaimedTask("A", "P1", 0, by, 0, exp), PendingTask("B", "P0", {})>> :
         by \in {"w1", "w2"}, exp \in {0, 2} }
    \cup { <<Pop(ClaimedTask("A", "P1", 0, "w1", 0, exp), {"claimed_by"}),
             PendingTask("B", "P0", {})>> : exp \in {0, 2} }

InitRenew ==
    /\ clock = 0
    /\ lockdir = NoDir
    /\ \E ts \in RenewTaskLists, m \in Modes : doc = FileOf([tasks |-> ts, mode |-> m])
    /\ bak = NoFile
    /\ tmp = NoFile
    /\ tmpOpen = {}
    /\ docOpen = {}
    /\ pc = [p \in Procs |-> "idle"]
    /\ op = [p \in Procs |-> ""]
    /\ wid = [p \in Procs |-> ""]
    /\ tid = [p \in Procs |-> NoTask]
    /\ deadline = [p \in Procs |-> 0]
    /\ missing = [p \in Procs |-> NoTime]
    /\ st = [p \in Procs |-> EmptyDoc]
    /\ base = [p \in Procs |-> EmptyDoc]
    /\ nowv = [p \in Procs |-> 0]
    /\ phase = [p \in Procs |-> ""]
    /\ res = [p \in Procs |-> NoRes]
    /\ reap = ReapIdle
    /\ sel = SelIdle
    /\ gate = GateIdle
    /\ ralph = RalphIdle

NextRenew ==
    \/ Tick
    \/ StartRenew("p1")
    \/ Mkdir("p1")
    \/ WritePid("p1")
    \/ LoadRenew("p1")
    \/ SaveBak("p1")
    \/ SaveOpen("p1")
    \/ SaveWrite("p1")
    \/ SaveReplace("p1")
    \/ ReleaseLock("p1")

SpecRenew == InitRenew /\ [][NextRenew]_vars

\* ------------------------------------------------------------- SpecRalph
\* ralph-wiggum-stop-hook.py: the Ralph loop stop hook and its state file
\* .claude/ralph-loop.local.md, invoked again and again by one session.
MaxRalphIter == 3        \* largest iteration and max_iterations of a state file at the start
MaxRalphCalls == 5       \* invocations of the hook in one behaviour
MaxEscape == 2           \* levels of JSON escaping kept apart in a promise

\* completion_promise as _parse_str returns it: NoPromise, or a text that
\* json.dumps leaves as it is ("DONE"), or one with a character that
\* json.dumps escapes (say "done"), esc times escaped
PromiseWords == {"DONE", "say \"done\""}
Escaped(word) == word = "say \"done\""
Promises == {NoPromise} \cup [word : PromiseWords, esc : {0}]

\* what the last assistant message holds: no promise token, or the token
\* <promise>...</promise> of one text
Messages == {NoPromise} \cup [word : PromiseWords, esc : 0..1]

\* shapes of the state file that _load_state tells apart
RalphShapes == {"absent", "ok", "unreadable", "nofront", "badint", "noprompt"}

RalphMin(a, b) == IF a < b THEN a ELSE b

\* json.dumps(state.completion_promise) of _write_state, read back by
\* _parse_str, which removes the outer quotes and no escape
Reread(p) ==
    IF p = NoPromise THEN NoPromise
    ELSE IF Escaped(p.word) THEN [p EXCEPT !.esc = RalphMin(p.esc + 1, MaxEscape)]
    ELSE p

\* _load_state returns a RalphState
Loadable(r) == r.file = "ok"

\* state.max_iterations > 0 and state.iteration >= state.max_iterations
MaxReached(r) == r.max_iterations > 0 /\ r.iteration >= r.max_iterations

\* state.completion_promise and token in last_msg
PromiseKept(r, msg) == r.completion_promise # NoPromise /\ msg = r.completion_promise

InitRalph ==
    /\ EngineAtRest
    /\ reap = ReapIdle
    /\ sel = SelIdle
    /\ gate = GateIdle
    /\ \E f \in RalphShapes, i \in 0..MaxRalphIter, m \in 0..MaxRalphIter, p \in Promises :
          ralph = [RalphIdle EXCEPT !.file = f, !.iteration = i, !.max_iterations = m,
                                    !.completion_promise = p, !.start = i, !.limit = m,
                                    !.promise = p]

\* main: one invocation of the hook with last_assistant_message msg
RalphStop(msg) ==
    /\ ralph.n < MaxRalphCalls
    /\ ralph' =
          LET r == [ralph EXCEPT !.n = @ + 1, !.msg = msg]
          IN  IF r.file = "absent"
              THEN [r EXCEPT !.decision = "allow"]
              ELSE IF ~Loadable(r) \/ MaxReached(r) \/ PromiseKept(r, msg)
              THEN [r EXCEPT !.file = "absent", !.decision = "allow"]
              ELSE [r EXCEPT !.iteration = @ + 1,
                             !.completion_promise = Reread(@),
                             !.decision = "block",
                             !.blocks = @ + 1]
    /\ UNCHANGED <<engineVars, reap, sel, gate>>

NextRalph == \E msg \in Messages : RalphStop(msg)

SpecRalph == InitRalph /\ [][NextRalph]_vars

\* ================================================================ claims

\* C2: the lock is exclusive: in every reachable state at most one live
\* process is between the return of _acquire_lock and _release_lock, also
\* when the acquirers found a lock directory left by a dead process.
C2_LockExclusive ==
    Cardinality({p \in Procs : InCritical(p)}) <= 1

\* the step of process p in which its claim stamp reaches the primary path
ClaimStampStep(p) ==
    /\ op[p] = "claim"
    /\ pc[p] = "replace"
    /\ phase[p] = "final"
    /\ res'[p].kind = "claimed"

\* C1: Claim is mutually exclusive: two invocations return claimed=true for
\* the same task only if the lease of the earlier stamp had expired when the
\* later one read the clock, and no claim stamp is written over a task whose
\* persisted status is in_progress.
C1_ClaimExclusive ==
    /\ [](\A p, q \in Procs :
            (/\ p # q
             /\ res[p].kind = "claimed"
             /\ res[q].kind = "claimed"
             /\ res[p].task = res[q].task)
            => \/ IsoZ(nowv[p] + LeaseTicks) <= nowv[q]
               \/ IsoZ(nowv[q] + LeaseTicks) <= nowv[p])
    /\ [][\A p \in Procs :
            (ClaimStampStep(p) /\ doc.complete)
            => LET n == FindTask(doc.data.tasks, res[p].task)
               IN  n # 0 => Status(doc.data.tasks[n]) # "in_progress"]_vars

\* C3: the primary document path always holds a complete document, at every
\* step of a save and after a crash of a writer.
C3_PrimaryComplete ==
    doc.exists /\ doc.complete

\* a step that takes the primary path from one complete document to another
DocStep == doc.complete /\ doc'.complete /\ DOMAIN doc'.data.tasks = DOMAIN doc.data.tasks

\* task i carries a claim stamp in document d
Stamped(d, i) == Status(d.tasks[i]) = "in_progress" /\ Has(d.tasks[i], "claimed_by")

StampOf(t) == <<Status(t), Get(t, "claimed_by", ""), Get(t, "lease_expires_at", BadTs)>>

\* C4: Claim and Renew running concurrently produce a linear history: a
\* claim stamp or lease extension in the persisted document is changed only
\* by a save whose writer had read that very stamp, so none is lost.
C4_LinearHistory ==
    [][DocStep =>
        \A i \in DOMAIN doc.data.tasks :
            (Stamped(doc.data, i) /\ StampOf(doc'.data.tasks[i]) # StampOf(doc.data.tasks[i]))
            => \E q \in Procs :
                  /\ doc'.data = st[q]
                  /\ i \in DOMAIN base[q].tasks
                  /\ StampOf(base[q].tasks[i]) = StampOf(doc.data.tasks[i])]_vars

\* the operation whose save produced the next primary document
WrittenBy(o) == \E q \in Procs : op[q] = o /\ doc'.data = st[q]

\* C5: every change of a persisted status follows the lifecycle: Claim moves
\* pending -> in_progress or failed -> in_progress (attempts < max_attempts,
\* dependencies completed), Reap moves in_progress -> failed, Renew changes
\* no status and a completed task is never changed.
C5_Lifecycle ==
    [][DocStep =>
        \A i \in DOMAIN doc.data.tasks :
            LET t == doc.data.tasks[i]
                u == doc'.data.tasks[i]
            IN  /\ Status(t) = "completed" => u = t
                /\ Status(u) # Status(t) =>
                    /\ WrittenBy("claim")
                    /\ ~WrittenBy("renew")
                    /\ \/ Status(t) = "pending" /\ Status(u) = "in_progress"
                       \/ /\ Status(t) = "failed" /\ Status(u) = "in_progress"
                          /\ Attempts(t) < MaxAttemptsOf(t)
                          /\ DepsOk(t, CompletedIds(doc.data.tasks))
                       \/ Status(t) = "in_progress" /\ Status(u) = "failed"]_vars

\* the three lease fields are on task t iff it is in_progress
LeaseFieldsIff(t) ==
    IF Status(t) = "in_progress"
    THEN LeaseFields \subseteq DOMAIN t
    ELSE LeaseFields \cap DOMAIN t = {}

\* C6: starting from a document that has claimed_by, claimed_at and
\* lease_expires_at exactly on its in_progress tasks, every persisted
\* document has them exactly on its in_progress tasks.
C6_LeaseFieldsIffInProgress ==
    doc.complete => \A i \in DOMAIN doc.data.tasks : LeaseFieldsIff(doc.data.tasks[i])

\* C7: persisted attempts never decreases; it grows by exactly 1, and only in
\* a step that reaps an expired lease (in_progress -> failed); claiming and
\* Renew leave it alone.
C7_AttemptsMonotone ==
    [][DocStep =>
        \A i \in DOMAIN doc.data.tasks :
            LET t == doc.data.tasks[i]
                u == doc'.data.tasks[i]
            IN  \/ Attempts(u) = Attempts(t) /\ ~(Status(t) = "in_progress" /\ Status(u) = "failed")
                \/ /\ Attempts(u) = Attempts(t) + 1
                   /\ Status(t) = "in_progress" /\ Status(u) = "failed"
                   /\ WrittenBy("claim")]_vars

\* C6 witness: a Renew has extended a lease, a Claim has reaped an expired
\* one and claimed a task, and the result is on disk.
C6_Witness ==
    /\ doc.complete
    /\ \E p, q \in Procs : res[p].kind = "renewed" /\ res[q].kind = "claimed"
    /\ \E i, j \in DOMAIN doc.data.tasks :
         /\ Status(doc.data.tasks[i]) = "failed" /\ Has(doc.data.tasks[i], "error_log")
         /\ Status(doc.data.tasks[j]) = "in_progress"

\* ------------------------------------------------- Reap as a function
\* task t has a parsable lease that lies before now
LeaseInPast(t, now) ==
    /\ Status(t) = "in_progress"
    /\ Has(t, "lease_expires_at")
    /\ t.lease_expires_at >= 0
    /\ t.lease_expires_at < now

OldLogItems(t) ==
    IF Has(t, "error_log") /\ t.error_log.islist THEN t.error_log.items ELSE <<>>

\* C8: Reap turns every in_progress task whose lease lies in the past into a
\* failed task with attempts + 1, one more error_log entry naming the owner
\* and none of claimed_by, claimed_at, lease_expires_at.
C8_ReapExpired ==
    reap.stage >= 1 =>
        \A i \in DOMAIN reap.in :
            LeaseInPast(reap.in[i], reap.now) =>
                LET t == reap.in[i]
                    u == reap.out[i]
                IN  /\ Status(u) = "failed"
                    /\ u.attempts = t.attempts + 1
                    /\ LeaseFields \cap DOMAIN u = {}
                    /\ Has(u, "error_log") /\ u.error_log.islist
                    /\ u.error_log.items = Append(OldLogItems(t), Get(t, "claimed_by", "None"))
                    /\ reap.changed

\* C8 witness: the scenario of the spec: a claimed task with attempts 0 and a
\* past lease has been reaped.
C8_Witness ==
    /\ reap.stage >= 1
    /\ \E i \in DOMAIN reap.in :
         /\ LeaseInPast(reap.in[i], reap.now)
         /\ reap.in[i].attempts = 0
         /\ Has(reap.in[i], "claimed_by")
         /\ Status(reap.out[i]) = "failed"

\* task t is in_progress with a missing or unparsable lease_expires_at
LeaseUnreadable(t) ==
    /\ Status(t) = "in_progress"
    /\ (Has(t, "lease_expires_at") => t.lease_expires_at < 0)

\* C9 as stated: Reap turns an in_progress task whose lease_expires_at is
\* unparsable or absent into a failed task with attempts + 1 and no lease
\* fields.
C9_UnreadableIsExpired ==
    reap.stage >= 1 =>
        \A i \in DOMAIN reap.in :
            LeaseUnreadable(reap.in[i]) =>
                /\ Status(reap.out[i]) = "failed"
                /\ reap.out[i].attempts = reap.in[i].attempts + 1
                /\ LeaseFields \cap DOMAIN reap.out[i] = {}

\* C9 amended: Reap leaves an in_progress task whose lease_expires_at is
\* unparsable or absent exactly as it is.
C9_UnreadableIsSkipped ==
    reap.stage >= 1 =>
        \A i \in DOMAIN reap.in :
            LeaseUnreadable(reap.in[i]) => reap.out[i] = reap.in[i]

C9_Witness ==
    /\ reap.stage >= 1
    /\ \E i, j \in DOMAIN reap.in :
         /\ LeaseUnreadable(reap.in[i])
         /\ Has(reap.in[i], "lease_expires_at")
         /\ LeaseUnreadable(reap.in[j])
         /\ ~Has(reap.in[j], "lease_expires_at")
         /\ reap.now = MaxNow

\* C10 as stated: a second Reap, at the same or a later now, on a list the
\* first Reap has just reaped changes no task and reports no change.
C10_SecondReapNoop ==
    (reap.stage = 2 /\ reap.changed) => (reap.out2 = reap.out /\ ~reap.changed2)

\* C10 amended: a second Reap at the same now changes no task and reports no
\* change; at a later now it changes none of the tasks the first Reap reaped.
C10_SecondReapSameNow ==
    reap.stage = 2 =>
        /\ reap.now2 = reap.now => (reap.out2 = reap.out /\ ~reap.changed2)
        /\ \A i \in DOMAIN reap.in :
              LeaseExpired(reap.in[i], reap.now) => reap.out2[i] = reap.out[i]

\* C10 witness: the first Reap reaped one task and kept another in_progress,
\* and Reap ran again at the same now.
C10_Witness ==
    /\ reap.stage = 2
    /\ reap.now2 = reap.now
    /\ reap.changed
    /\ \E i \in DOMAIN reap.out : Status(reap.out[i]) = "in_progress"

\* ------------------------------------------------ Claim as an operation
\* worker_id of main after "if not worker_id: worker_id = host:pid"
ClaimIdentity(p) == IF wid[p] = "" THEN HostPid(p) ELSE wid[p]

\* the task list of process p after its _reap_stale_leases call
ReapedTasks(p) == ReapStaleLeases(base[p].tasks, nowv[p])

\* "out" of main: task_id, title and lease_expires_at of the stamped task
ClaimOutput(p) ==
    LET n == FindTask(st[p].tasks, res[p].task)
    IN  IF n = 0 THEN [task_id |-> "", title |-> "", lease_expires_at |-> BadTs]
        ELSE [task_id |-> Get(st[p].tasks[n], "id", ""),
              title |-> Get(st[p].tasks[n], "title", ""),
              lease_expires_at |-> Get(st[p].tasks[n], "lease_expires_at", BadTs)]

\* process p has selected and stamped a task and is saving or has saved it
ClaimStamped(p) == op[p] = "claim" /\ res[p].kind = "claiming"

\* C11: when a task is eligible and an identity is available, Claim selects
\* NextTask of the reaped list, sets status in_progress, claimed_by to the
\* identity, claimed_at to now and lease_expires_at to now + lease (second
\* precision), leaves everything else alone, persists that document and
\* returns the id, title and lease expiry of that task.
C11_ClaimStampsNextTask ==
    /\ [](\A p \in Procs :
            ClaimStamped(p) =>
                LET r == ReapedTasks(p)
                    n == NextTask(r)
                IN  /\ n # 0
                    /\ ~(base[p].mode = "concurrent" /\ wid[p] = "")
                    /\ res[p].task = Get(r[n], "id", "")
                    /\ DOMAIN st[p].tasks = DOMAIN r
                    /\ \A i \in DOMAIN r : i # n => st[p].tasks[i] = r[i]
                    /\ st[p].tasks[n].status = "in_progress"
                    /\ st[p].tasks[n].claimed_by = ClaimIdentity(p)
                    /\ st[p].tasks[n].claimed_at = IsoZ(nowv[p])
                    /\ st[p].tasks[n].lease_expires_at = IsoZ(nowv[p] + LeaseTicks)
                    /\ Pop(st[p].tasks[n], LeaseFields \cup {"status"})
                         = Pop(r[n], LeaseFields \cup {"status"}))
    /\ [](\A p \in Procs :
            (op[p] = "claim" /\ res[p].kind \in {"nothing", "missing_identity"}) =>
                \/ NextTask(st[p].tasks) = 0
                \/ st[p].mode = "concurrent" /\ wid[p] = "")
    /\ [][\A p \in Procs :
            ClaimStampStep(p) =>
                /\ doc'.complete
                /\ doc'.data = st[p]
                /\ ClaimOutput(p)' = [task_id |-> res[p].task,
                                      title |-> res[p].task,
                                      lease_expires_at |-> IsoZ(nowv[p] + LeaseTicks)]]_vars

\* the step in which the Claim of process p leaves the body of main
ClaimReturns(p) ==
    /\ op[p] = "claim"
    /\ pc[p] \in {"locked", "replace"}
    /\ pc'[p] = "release"
    /\ res'[p].kind \in {"nothing", "missing_identity", "claimed"}

\* the step in which the save of the reaped document by process p ends
ReapSaved(p) ==
    /\ op[p] = "claim"
    /\ pc[p] = "replace"
    /\ phase[p] = "reap"
    /\ pc'[p] \in {"bak", "release"}
    /\ res'[p].kind # "exception"

\* no in_progress task of document d has a lease that expired by now
NoExpiredInProgress(d, now) ==
    \A i \in DOMAIN d.tasks : ~LeaseExpired(d.tasks[i], now)

\* C12: what Reap changed during a Claim is persisted before the Claim
\* selects, and when a Claim returns (with a task, with nothing, or with a
\* missing identity) the persisted document shows no in_progress task whose
\* lease had expired at the Claim's now.
C12_ReapPersisted ==
    [][\A p \in Procs :
        /\ ReapSaved(p) =>
              /\ doc'.complete
              /\ doc'.data.tasks = ReapStaleLeases(base[p].tasks, nowv[p])
        /\ (ClaimReturns(p) /\ doc'.complete) =>
              NoExpiredInProgress(doc'.data, nowv'[p])]_vars

\* ------------------------------------------------ Renew as an operation
RenewErrors == {"not_found", "not_in_progress", "owned_by_other"}

\* the positions of document d that hold a task with the given id
TasksWithId(d, id) == {i \in DOMAIN d.tasks : Get(d.tasks[i], "id", "") = id}

\* a step taken by process p itself while its Renew is failing
RenewFailingStep(p) ==
    /\ op[p] = "renew"
    /\ res'[p].kind \in RenewErrors
    /\ pc[p] \in {"locked", "release"}
    /\ pc'[p] \notin {pc[p], "crashed"}

\* C13: Renew fails with NotFound when no task has the id, NotInProgress
\* when the task is not in_progress, OwnershipConflict when claimed_by names
\* another identity, and succeeds otherwise; a failing Renew writes nothing
\* to the document, its .bak or .tmp, and removes the lock directory.
C13_RenewErrors ==
    /\ [](\A p \in Procs :
            op[p] = "renew" =>
                LET S == TasksWithId(st[p], tid[p])
                    k == res[p].kind
                IN  /\ k = "not_found" => S = {}
                    /\ k = "not_in_progress" =>
                          /\ S # {}
                          /\ \A i \in S : Status(st[p].tasks[i]) # "in_progress"
                    /\ k = "owned_by_other" =>
                          /\ S # {}
                          /\ \A i \in S :
                                /\ Status(st[p].tasks[i]) = "in_progress"
                                /\ Get(st[p].tasks[i], "claimed_by", "") \notin {"", wid[p]}
                    /\ k \in {"renewing", "renewed"} =>
                          /\ S # {}
                          /\ \A i \in S :
                                /\ Status(base[p].tasks[i]) = "in_progress"
                                /\ Get(base[p].tasks[i], "claimed_by", "") \in {"", wid[p]})
    /\ [][\A p \in Procs :
            RenewFailingStep(p) =>
                /\ UNCHANGED <<doc, bak, tmp>>
                /\ pc[p] = "locked" => pc'[p] = "release"
                /\ pc[p] = "release" => (pc'[p] = "done" /\ ~lockdir'.exists)]_vars

\* C13 witness: one Renew has ended with OwnershipConflict and one with
\* NotInProgress, and the lock directory is gone.
C13_Witness ==
    /\ \E p, q \in Procs :
         /\ pc[p] = "done" /\ res[p].kind = "owned_by_other"
         /\ pc[q] = "done" /\ res[q].kind = "not_in_progress"
    /\ ~lockdir.exists

\* the step in which the save of a successful Renew of process p ends
RenewSaveStep(p) ==
    /\ op[p] = "renew"
    /\ pc[p] = "replace"
    /\ res'[p].kind = "renewed"

\* C14: the save of a successful Renew takes the persisted document (when
\* it is readable before and after) to one in which the renewed task has lease_expires_at = now + lease (second
\* precision) and claimed_by = the caller, with attempts, status and every
\* other field as before, and in which every other task is as before.
C14_RenewFrame ==
    [][\A p \in Procs :
        (RenewSaveStep(p) /\ doc.complete /\ doc'.complete) =>
            /\ DOMAIN doc'.data.tasks = DOMAIN doc.data.tasks
            /\ \A i \in DOMAIN doc.data.tasks :
                  LET t == doc.data.tasks[i]
                      u == doc'.data.tasks[i]
                  IN  IF i \in TasksWithId(doc.data, tid[p])
                      THEN /\ Get(u, "lease_expires_at", BadTs) = IsoZ(nowv[p] + LeaseTicks)
                           /\ Get(u, "claimed_by", "") = wid[p]
                           /\ Status(u) = Status(t)
                           /\ Attempts(u) = Attempts(t)
                           /\ Pop(u, {"lease_expires_at", "claimed_by"})
                                = Pop(t, {"lease_expires_at", "claimed_by"})
                      ELSE u = t]_vars

\* ------------------------------------------------------ missing identity
\* the ways the body of a Claim ends without an exception
ClaimDecided == {"nothing", "missing_identity", "claiming", "claimed"}

\* process p runs a Claim in concurrent mode without HARNESS_WORKER_ID
Anonymous(p) == op[p] = "claim" /\ st[p].mode = "concurrent" /\ wid[p] = ""

\* C15 as stated: in concurrent mode every Claim invoked without a worker
\* identity reports a missing-identity error.
C15_AnonymousAlwaysError ==
    \A p \in Procs :
        (Anonymous(p) /\ res[p].kind \in ClaimDecided) => res[p].kind = "missing_identity"

\* C15 amended: in concurrent mode a Claim without a worker identity never
\* stamps a task: it reports the missing-identity error when a task is
\* eligible and plain claimed=false when none is, and writes nothing after
\* the reap save; in exclusive mode the identity is host:pid and the task is
\* stamped with it; with an identity the error is never reported.
C15_MissingIdentity ==
    /\ [](\A p \in Procs :
            (op[p] = "claim" /\ res[p].kind \in ClaimDecided) =>
                IF Anonymous(p)
                THEN /\ res[p].kind = (IF NextTask(st[p].tasks) # 0
                                       THEN "missing_identity" ELSE "nothing")
                     /\ st[p].tasks = ReapedTasks(p)
                ELSE /\ res[p].kind # "missing_identity"
                     /\ (wid[p] = "" /\ res[p].kind \in {"claiming", "claimed"}) =>
                           \E i \in TasksWithId(st[p], res[p].task) :
                               /\ Status(st[p].tasks[i]) = "in_progress"
                               /\ st[p].tasks[i].claimed_by = HostPid(p))
    /\ [][\A p \in Procs :
            (/\ op[p] = "claim"
             /\ res'[p].kind = "missing_identity"
             /\ pc[p] \in {"locked", "release"}
             /\ pc'[p] \notin {pc[p], "crashed"})
            => UNCHANGED <<doc, bak, tmp>>]_vars

\* C15 witness: an anonymous Claim in concurrent mode has reaped an expired
\* lease, found a task eligible and ended with the missing-identity error.
C15_Witness ==
    \E p \in Procs :
        /\ Anonymous(p)
        /\ pc[p] = "done"
        /\ res[p].kind = "missing_identity"
        /\ \E i \in DOMAIN st[p].tasks : Status(st[p].tasks[i]) = "failed"

\* ----------------------------------------------------------- lock timeout
\* the step in which _acquire_lock of process p raises TimeoutError
TimeoutStep(p) ==
    /\ pc[p] \in {"acquire", "rename"}
    /\ res[p].kind # "timeout"
    /\ res'[p].kind = "timeout"

\* C16: _acquire_lock gives up only at or after its deadline; the step that
\* raises the timeout leaves the lock directory, the document, .bak and
\* .tmp as they are, and the caller ends there without having loaded,
\* changed or saved the document.
C16_TimeoutTouchesNothing ==
    /\ [](\A p \in Procs :
            res[p].kind = "timeout" =>
                /\ pc[p] = "done"
                /\ st[p] = EmptyDoc
                /\ base[p] = EmptyDoc
                /\ phase[p] = "")
    /\ [][\A p \in Procs :
            TimeoutStep(p) =>
                /\ clock >= deadline[p]
                /\ UNCHANGED <<lockdir, doc, bak, tmp, tmpOpen, docOpen>>]_vars

\* C16 witness: a caller has timed out while the other process, alive and
\* inside its critical section, still owns the lock directory.
C16_Witness ==
    \E p, q \in Procs :
        /\ p # q
        /\ res[p].kind = "timeout"
        /\ deadline[p] = LockTimeoutTicks
        /\ InCritical(q)
        /\ lockdir = [exists |-> TRUE, pid |-> q]

\* ------------------------------------------------- stale lock recovery
\* a step of the code of process p: a started invocation keeps running
\* unless it is killed
ProcStep(p) ==
    \/ Mkdir(p)
    \/ WritePid(p)
    \/ LockBusy(p)
    \/ RenameStale(p)
    \/ LoadClaim(p)
    \/ LoadRenew(p)
    \/ SaveBak(p)
    \/ SaveOpen(p)
    \/ SaveWrite(p)
    \/ SaveReplace(p)
    \/ ReleaseLock(p)

\* a holder (p2) was killed right after _acquire_lock returned: its lock
\* directory with its pid is still there; p1 has not started yet
InitRecover ==
    /\ clock = 0
    /\ lockdir = [exists |-> TRUE, pid |-> "p2"]
    /\ \E ts \in InitTaskLists, m \in Modes : doc = FileOf([tasks |-> ts, mode |-> m])
    /\ bak = NoFile
    /\ tmp = NoFile
    /\ tmpOpen = {}
    /\ docOpen = {}
    /\ pc = [p \in Procs |-> IF p = "p2" THEN "crashed" ELSE "idle"]
    /\ op = [p \in Procs |-> IF p = "p2" THEN "claim" ELSE ""]
    /\ wid = [p \in Procs |-> ""]
    /\ tid = [p \in Procs |-> NoTask]
    /\ deadline = [p \in Procs |-> IF p = "p2" THEN LockTimeoutTicks ELSE 0]
    /\ missing = [p \in Procs |-> NoTime]
    /\ st = [p \in Procs |-> EmptyDoc]
    /\ base = [p \in Procs |-> EmptyDoc]
    /\ nowv = [p \in Procs |-> 0]
    /\ phase = [p \in Procs |-> ""]
    /\ res = [p \in Procs |-> NoRes]
    /\ reap = ReapIdle
    /\ sel = SelIdle
    /\ gate = GateIdle
    /\ ralph = RalphIdle

SpecRecover == InitRecover /\ [][Next]_vars /\ \A p \in Procs : WF_vars(ProcStep(p))

\* process p is acquiring, the lock directory records the pid of another
\* process, and every other process has ended or was killed
StaleLockFound(p) ==
    /\ pc[p] = "acquire"
    /\ lockdir.exists
    /\ lockdir.pid \notin {NoPid, p}
    /\ \A q \in Procs \ {p} : pc[q] \in {"done", "crashed"}

\* C17: an acquirer that finds the lock directory of a holder that died
\* between acquisition and release, with no live competitor, gets the lock
\* (unless it is killed itself): it does not time out.
C17_StaleLockRecovered ==
    \A p \in Procs :
        StaleLockFound(p) ~> (pc[p] = "locked" \/ pc[p] = "crashed")

\* C17 witness: the holder crashed inside its critical section and a later
\* acquirer, by now past its own deadline, holds the lock.
C17_Witness ==
    \E p, q \in Procs :
        /\ pc[q] = "crashed"
        /\ op[q] = "claim"
        /\ pc[p] = "locked"
        /\ lockdir = [exists |-> TRUE, pid |-> p]
        /\ clock >= deadline[p]

\* ------------------------------------------- selection as a function
Range(q) == {q[a] : a \in DOMAIN q}

\* the rank table of the selection order
RankOf(t) ==
    LET v == Get(t, "priority", "")
    IN  CASE v = "P0" -> 0
          [] v = "P1" -> 1
          [] v = "P2" -> 2
          [] OTHER -> UnrankedPriority

\* t comes before u: lower rank, or equal rank and smaller id
KeyBefore(t, u) ==
    \/ RankOf(t) < RankOf(u)
    \/ RankOf(t) = RankOf(u) /\ IdOrd(Get(t, "id", "")) < IdOrd(Get(u, "id", ""))

\* q lists the positions in S, each once, in the order of KeyBefore
OrderedListOf(tasks, q, S) ==
    /\ Range(q) = S
    /\ Len(q) = Cardinality(S)
    /\ \A a, b \in DOMAIN q : a < b => KeyBefore(tasks[q[a]], tasks[q[b]])

\* C18: each eligibility set is listed by priority rank ascending (P0, P1,
\* P2, anything else last) and then by id ascending in string order;
\* nextTask is the head of that list, and a second call on the unchanged
\* list returns the same task.
C18_SelectionOrder ==
    sel.stage >= 1 =>
        /\ OrderedListOf(sel.tasks, sel.pending, PendingSet(sel.tasks))
        /\ OrderedListOf(sel.tasks, sel.retry, RetrySet(sel.tasks))
        /\ sel.next = (IF sel.pending # <<>> THEN sel.pending[1]
                       ELSE IF sel.retry # <<>> THEN sel.retry[1] ELSE 0)
        /\ sel.stage = 2 => sel.again = sel.next

\* C18 witness: three pending tasks of which "t10" and "t2" have the same
\* rank and stand in the document in the other order, and the third, of an
\* unranked priority, comes last although P2 is in the list.
C18_Witness ==
    /\ sel.stage = 2
    /\ Len(sel.pending) = 3
    /\ sel.tasks[sel.pending[1]].id = "t10"
    /\ sel.tasks[sel.pending[2]].id = "t2"
    /\ sel.tasks[sel.pending[1]].priority = "P2"
    /\ sel.tasks[sel.pending[2]].priority = "P2"
    /\ sel.tasks[sel.pending[3]].priority = "low"

\* C19: when some pending task is eligible nextTask is a pending task,
\* whatever the priorities of the retryable failed tasks; a failed task is
\* returned only when no pending task is eligible.
C19_PendingBeforeRetry ==
    sel.stage >= 1 =>
        /\ PendingSet(sel.tasks) # {} =>
              (sel.next # 0 /\ Status(sel.tasks[sel.next]) = "pending")
        /\ (sel.next # 0 /\ Status(sel.tasks[sel.next]) = "failed") =>
              PendingSet(sel.tasks) = {}
        /\ (PendingSet(sel.tasks) = {} /\ RetrySet(sel.tasks) # {}) =>
              (sel.next # 0 /\ Status(sel.tasks[sel.next]) = "failed")

\* C19 witness: a P2 pending task was selected although a P0 failed task
\* was retryable.
C19_Witness ==
    /\ sel.stage >= 1
    /\ sel.next # 0
    /\ sel.tasks[sel.next].status = "pending"
    /\ sel.tasks[sel.next].priority = "P2"
    /\ \E j \in RetrySet(sel.tasks) : sel.tasks[j].priority = "P0"

\* some id in depends_on of task i is not the id of a completed task
Unsatisfied(tasks, i) ==
    \E d \in Get(tasks[i], "depends_on", DepList({})).ids :
        ~\E j \in DOMAIN tasks :
            Get(tasks[j], "id", "") = d /\ Status(tasks[j]) = "completed"

\* C20: a task with an id in depends_on that is not the id of a completed
\* task is in neither eligibility list, is not nextTask and is not stamped
\* by Claim, whatever its priority.
C20_UnsatisfiedNeverSelected ==
    sel.stage >= 1 =>
        \A i \in DOMAIN sel.tasks :
            Unsatisfied(sel.tasks, i) =>
                /\ i \notin Range(sel.pending) \cup Range(sel.retry)
                /\ sel.next # i
                /\ sel.stage = 2 =>
                      /\ sel.claim.task # sel.tasks[i].id
                      /\ sel.stamped[i] = sel.tasks[i]

\* C20 witness: two pending P0 tasks depend on each other, and the third
\* task, of the lowest priority, was selected and claimed.
C20_Witness ==
    /\ sel.stage = 2
    /\ \E i, j \in DOMAIN sel.tasks :
         /\ i # j
         /\ sel.tasks[i].status = "pending" /\ sel.tasks[i].priority = "P0"
         /\ sel.tasks[j].status = "pending" /\ sel.tasks[j].priority = "P0"
         /\ sel.tasks[j].id \in sel.tasks[i].depends_on.ids
         /\ sel.tasks[i].id \in sel.tasks[j].depends_on.ids
    /\ sel.next # 0
    /\ sel.tasks[sel.next].priority = "low"
    /\ sel.claim = [kind |-> "claiming", task |-> sel.tasks[sel.next].id]

\* a failed task that has used up its attempts (3 when max_attempts is absent)
Exhausted(t) ==
    /\ Get(t, "status", "") = "failed"
    /\ Get(t, "attempts", 0) >= (IF Has(t, "max_attempts") THEN t["max_attempts"] ELSE 3)

\* C21: a failed task with attempts >= max_attempts (3 when the field is
\* absent) is never in the retry list, is never the next task, and the
\* claiming step of main leaves it as it is.
C21_ExhaustedNeverRetried ==
    sel.stage >= 1 =>
        \A i \in DOMAIN sel.tasks :
            Exhausted(sel.tasks[i]) =>
                /\ i \notin Range(sel.retry)
                /\ i \notin Range(sel.pending)
                /\ sel.next # i
                /\ sel.stage = 2 =>
                     /\ sel.stamped[i] = sel.tasks[i]
                     /\ sel.claim.task # sel.tasks[i].id

\* C21 witness: of two failed tasks without max_attempts and without
\* dependencies the one with 3 attempts is passed over and the one with 2
\* attempts is claimed.
C21_Witness ==
    /\ sel.stage = 2
    /\ \E i, j \in DOMAIN sel.tasks :
         /\ Exhausted(sel.tasks[i])
         /\ sel.tasks[i].attempts = 3
         /\ sel.tasks[j].status = "failed" /\ sel.tasks[j].attempts = 2
         /\ \A k \in {i, j} : DOMAIN sel.tasks[k] \cap {"max_attempts", "depends_on"} = {}
         /\ sel.retry = <<j>>
         /\ sel.claim = [kind |-> "claiming", task |-> sel.tasks[j].id]

\* depends_on of task t is present and is not a list
MalformedDeps(t) == Has(t, "depends_on") /\ t["depends_on"].kind # "list"

\* C22: a task whose depends_on is not a list, truthy or falsy ("", 0, {}),
\* is in neither eligibility list and is not nextTask.
C22_MalformedNeverEligible ==
    sel.stage >= 1 =>
        \A i \in DOMAIN sel.tasks :
            MalformedDeps(sel.tasks[i]) =>
                /\ i \notin Range(sel.pending) \cup Range(sel.retry)
                /\ sel.next # i

\* the part of C22 that the code keeps: a truthy value that is not a list
C22_TruthyNeverEligible ==
    sel.stage >= 1 =>
        \A i \in DOMAIN sel.tasks :
            (MalformedDeps(sel.tasks[i]) /\ sel.tasks[i]["depends_on"].kind = "truthy") =>
                /\ i \notin Range(sel.pending) \cup Range(sel.retry)
                /\ sel.next # i

\* ------------------------------------------------------- the stop hook
\* a step that is one invocation of the stop hook
GateStep == gate'.n = gate.n + 1

\* what the document holds for the hook: no tasks when "tasks" is falsy
GateDocTasks(g) == IF g.shape = "falsy" THEN <<>> ELSE g.tasks

\* work is outstanding for caller w: an eligible pending task, a retryable
\* failed task (both as Claim computes them), or an in_progress task that
\* blocks w
Outstanding(g, w) ==
    \/ PendingSet(GateDocTasks(g)) # {}
    \/ RetrySet(GateDocTasks(g)) # {}
    \/ InProgressBlocking(GateDocTasks(g), g.mode, w) # {}

\* C23: when the marker is present, the document is readable and nothing is
\* outstanding for the caller, the hook allows the stop and leaves neither
\* the block-counter file nor the marker behind; the document stays as it is.
C23_AllDoneAllowsStop ==
    [][(GateStep /\ gate.active /\ gate.shape # "bad" /\ ~Outstanding(gate, gate'.w)) =>
          /\ gate'.decision = "allow"
          /\ ~gate'.counter.present
          /\ ~gate'.active
          /\ gate'.tasks = gate.tasks]_vars

\* C23 witness: the third invocation found both tasks completed, after two
\* invocations that blocked and wrote the counter, and removed the marker.
C23_Witness ==
    /\ gate.n = 3
    /\ gate.why = "done"
    /\ gate.decision = "allow"
    /\ \A i \in DOMAIN gate.tasks : gate.tasks[i].status = "completed"
    /\ ~gate.counter.present
    /\ ~gate.active

\* C24: with HARNESS_STOP_TIMEOUT_SECONDS unset, the marker present and the
\* document readable, every invocation that finds work outstanding for the
\* caller blocks and keeps the marker, whatever stop_hook_active and the
\* block counter are.
C24_StrictWithoutTimeout ==
    [][(/\ GateStep
        /\ gate.active
        /\ gate.shape # "bad"
        /\ gate.timeout = NoField
        /\ Outstanding(gate, gate'.w)) =>
          /\ gate'.decision = "block"
          /\ gate'.why = "work"
          /\ gate'.active]_vars

\* C24 witness: without a timeout the third invocation in a row blocked at
\* the latest time, with stop_hook_active set, and the counter stands at 3
\* or more.
C24_Witness ==
    /\ gate.timeout = NoField
    /\ gate.n = 3
    /\ gate.now = MaxGateNow
    /\ gate.re
    /\ gate.decision = "block" /\ gate.why = "work"
    /\ gate.counter.blocks >= 3
    /\ gate.counter.first < gate.now

\* the counter the claim expects after an invocation at gate.now that found
\* the counter gate.counter and work outstanding
ExpectedCounter ==
    LET prev == IF gate.counter.present THEN gate.counter ELSE NoCounter
        count == Cardinality({i \in DOMAIN GateDocTasks(gate) :
                                 GateDocTasks(gate)[i].status = "completed"})
        progress == count > prev.completed
    IN  [present |-> TRUE,
         blocks |-> IF progress THEN 1 ELSE prev.blocks + 1,
         completed |-> count,
         first |-> IF progress \/ prev.first = NoTime THEN gate.now ELSE prev.first]

\* an invocation with the marker present, a readable document and work
\* outstanding for the caller
FindsWork == GateStep /\ gate.active /\ gate.shape # "bad" /\ Outstanding(gate, gate'.w)

\* C25 as stated: every invocation that finds work outstanding leaves the
\* counter file with consecutiveBlocks one more than before (1 when the
\* completed count grew, then with firstBlockTimestamp now) and
\* lastCompletedCount the current completed count.
C25_CounterEveryCall ==
    [][FindsWork => gate'.counter = ExpectedCounter]_vars

\* C25, amended: an invocation that finds work outstanding and blocks leaves
\* the counter as above; one that allows the stop by the timeout leaves no
\* counter file.
C25_CounterOnBlock ==
    [][FindsWork =>
          IF gate'.decision = "block"
          THEN gate'.counter = ExpectedCounter
          ELSE gate'.why = "timeout" /\ ~gate'.counter.present]_vars

\* C25 witness: with no timeout configured, the third block in a row has
\* restarted the count at 1 with the timestamp of that call, because a task
\* was completed since the second.
C25_Witness ==
    /\ gate.timeout = NoField
    /\ gate.n = 3
    /\ gate.decision = "block" /\ gate.why = "work"
    /\ gate.counter.blocks = 1
    /\ gate.counter.completed >= 1
    /\ gate.counter.first = gate.now
    /\ gate.now > 1

\* an invocation that allows the stop although work is outstanding
AllowsWithWork == FindsWork /\ gate'.decision = "allow"

\* C26: the hook allows the stop while work is outstanding only when
\* stop_hook_active is set, a timeout > 0 is configured and the time since
\* firstBlockTimestamp (that of the counter found, or now when there is none
\* or the completed count has grown) is at least the timeout; an invocation
\* in which the completed count has grown never allows the stop so.
C26_TimeoutOnly ==
    [][AllowsWithWork =>
          /\ gate'.re
          /\ gate.timeout # NoField /\ gate.timeout > 0
          /\ gate.now - ExpectedCounter.first >= gate.timeout
          /\ ExpectedCounter.first = gate.counter.first
          /\ gate.counter.present
          /\ ExpectedCounter.completed <= gate.counter.completed
          /\ gate'.why = "timeout"]_vars

\* C26 witness: the counter of the first block, taken at time 1, is found at
\* time 3 with a timeout of two ticks, no task completed since, and the
\* re-entrant caller is allowed to stop with a pending task outstanding.
C26_Witness ==
    /\ gate.n = 2
    /\ gate.now = 3
    /\ gate.timeout = 2
    /\ gate.re
    /\ gate.decision = "allow" /\ gate.why = "timeout"
    /\ gate.active
    /\ PendingSet(gate.tasks) # {}

\* C27: after an invocation of the hook that found the marker and a readable
\* document, the persisted document holds no in_progress task whose lease
\* had expired at the time of the invocation, and the stop is not allowed as
\* "nothing left" while the reaped document has work outstanding for the
\* caller.
C27_GateReaps ==
    [][(GateStep /\ gate.active /\ gate.shape = "list") =>
          /\ NoExpiredInProgress([tasks |-> gate'.tasks], gate.now)
          /\ gate'.why = "done" =>
               ~Outstanding([gate EXCEPT !.tasks = ReapStaleLeases(gate.tasks, gate.now)],
                            gate'.w)]_vars

\* the decision half of C27 alone
C27_DecisionAfterReap ==
    [][(GateStep /\ gate.active /\ gate.shape = "list") =>
          (gate'.why = "done" =>
               ~Outstanding([gate EXCEPT !.tasks = ReapStaleLeases(gate.tasks, gate.now)],
                            gate'.w))]_vars

\* no task of the document of the hook has an expired lease
GateNoExpiredLease == NoExpiredInProgress([tasks |-> gate.tasks], gate.now)

\* the in_progress tasks of g
InProgressOf(g) ==
    {i \in DOMAIN GateDocTasks(g) : GateDocTasks(g)[i].status = "in_progress"}

\* task t is claimed by an identity other than w
ClaimedByOther(t, w) == Has(t, "claimed_by") /\ t["claimed_by"] \notin {"", w}

\* an invocation for which only in_progress tasks can be outstanding
OnlyInProgress ==
    /\ GateStep /\ gate.active /\ gate.shape # "bad"
    /\ PendingSet(GateDocTasks(gate)) = {}
    /\ RetrySet(GateDocTasks(gate)) = {}

\* C28 as stated: in concurrent mode the stop is held up by the in_progress
\* tasks claimed by the caller's identity or by nobody and by no others,
\* whoever the caller is; in exclusive mode by any in_progress task.
C28_OthersNeverBlock ==
    [][OnlyInProgress =>
          (gate'.why # "done" <=>
             \E i \in InProgressOf(gate) :
                gate.mode = "concurrent" => ~ClaimedByOther(gate.tasks[i], gate'.w))]_vars

\* C28, amended: the tasks of other identities are passed over only for a
\* caller that has an identity (HARNESS_WORKER_ID set and not empty); an
\* anonymous caller in concurrent mode is held up by any in_progress task,
\* as every caller is in exclusive mode.
C28_BlockingSet ==
    [][OnlyInProgress =>
          (gate'.why # "done" <=>
             \E i \in InProgressOf(gate) :
                (gate.mode = "concurrent" /\ gate'.w # "") =>
                    ~ClaimedByOther(gate.tasks[i], gate'.w))]_vars

\* C28 witness: in concurrent mode caller w1 was allowed to stop, and the
\* marker was removed, while a task claimed by w2 is in_progress.
C28_Witness ==
    /\ gate.n >= 1
    /\ gate.mode = "concurrent"
    /\ gate.w = "w1"
    /\ gate.why = "done"
    /\ \E i \in InProgressOf(gate) : ClaimedByOther(gate.tasks[i], "w1")

\* what C29 says of an invocation on a document g.shape cannot be used
ConfigErrorReported ==
    /\ IF gate'.re
       THEN gate'.decision = "allow"
       ELSE gate'.decision = "block" /\ gate'.why = "config_error"
    /\ gate'.counter = gate.counter
    /\ gate'.tasks = gate.tasks /\ gate'.shape = gate.shape
    /\ gate'.active

\* C29: with the marker present and a document that is unparsable, has a
\* root that is not an object or has a "tasks" that is not a list (truthy or
\* falsy), the hook reports a configuration-error block to a caller without
\* stop_hook_active and allows the stop of one with it, and writes neither
\* the document nor the block counter.
C29_MalformedReported ==
    [][(GateStep /\ gate.active /\ gate.shape \in {"bad", "falsy"}) =>
          ConfigErrorReported]_vars

\* the part of C29 that the code keeps: every malformed document but one
\* with a falsy non-list under "tasks"
C29_UnparsableReported ==
    [][(GateStep /\ gate.active /\ gate.shape = "bad") => ConfigErrorReported]_vars

\* the id of the task a Claim run on tasks at time now selects after its
\* Reap, NoTask when it selects none
ClaimWouldSelect(tasks, now) ==
    HintOf(ReapStaleLeases(tasks, now), NextTask(ReapStaleLeases(tasks, now)))

\* C30: the task the hook names when it blocks is the task a Claim on the
\* same document at the same time selects, and the session-start summary
\* names the task the hook names on the same document.
C30_SameNextTask ==
    [][/\ (GateStep /\ gate'.decision = "block" /\ gate'.next # NoTask) =>
             gate'.next = ClaimWouldSelect(gate.tasks, gate.now)
       /\ (gate'.summary # gate.summary /\ gate.active /\ gate.shape = "list") =>
             gate'.summary = HintOf(gate.tasks,
                                PickNext(gate.tasks, GatePendingEligible(gate.tasks),
                                         GateRetryable(gate.tasks)))]_vars

\* -------------------------------------------------- the marker is absent
\* what the hooks can write: the document, the counter file, the marker
HookFiles(g) == <<g.shape, g.tasks, g.mode, g.counter, g.active>>

\* C31: when .harness-active is absent, the stop hook, SubagentStop,
\* TeammateIdle and SessionStart return without a decision, whatever the
\* document holds, and leave the document, the counter file and the marker
\* as they are.
C31_InactiveNoOp ==
    [][~gate.active =>
          /\ HookFiles(gate') = HookFiles(gate)
          /\ gate'.n # gate.n =>
               gate'.decision = "allow" /\ gate'.why = "inactive" /\ gate'.next = NoTask
          /\ gate'.sub # gate.sub => gate'.sub = [kind |-> "allow", task |-> NoTask]
          /\ gate'.idle # gate.idle => gate'.idle = [kind |-> "allow", task |-> NoTask]
          /\ gate'.summary # gate.summary => gate'.summary = "silent"]_vars

\* C31 witness: without the marker all four hooks have run on a document
\* with a pending and an in_progress task and a counter file, and none has
\* blocked or named a task.
C31_Witness ==
    /\ ~gate.active
    /\ gate.n = 1 /\ gate.why = "inactive"
    /\ gate.sub.kind = "allow" /\ gate.idle.kind = "allow" /\ gate.summary = "silent"
    /\ gate.counter.present
    /\ gate.shape = "list"
    /\ gate.tasks[1].status = "pending" /\ gate.tasks[2].status = "in_progress"

\* ====================================== one invocation with a failing backup
\* shutil.copy2(path, bak) raises (the .bak path cannot be written): the
\* call is not inside a try of _atomic_write_json, so the exception leaves
\* it and reaches the finally clause of main; the copy may have begun
SaveBakFails(p) ==
    /\ pc[p] = "bak"
    /\ bak' \in {bak, [exists |-> TRUE, complete |-> FALSE, data |-> doc.data]}
    /\ BodyFails(p)
    /\ UNCHANGED <<reap, sel, gate, ralph, clock, lockdir, doc, tmp, tmpOpen, docOpen, envVars, lockVars, memVars>>

\* process p1 alone runs one Claim or Renew
NextSave ==
    \/ Tick
    \/ StartClaim("p1")
    \/ StartRenew("p1")
    \/ ProcStep("p1")
    \/ SaveBakFails("p1")

SpecSave == Init /\ [][NextSave]_vars

\* C32: a save goes on to write the temporary file whether or not the copy
\* to .bak succeeded: the step that ends the backup of process p takes p to
\* the opening of harness-tasks.json.tmp, never out of the save.
C32_BackupBestEffort ==
    [][\A p \in Procs : (pc[p] = "bak" /\ pc'[p] # "bak") => pc'[p] = "open"]_vars

\* what follows from the failed copy: an invocation has ended with an
\* exception, its stamped or renewed document is not the persisted one
C32_MutationLost ==
    \E p \in Procs :
        /\ pc[p] = "done"
        /\ res[p].kind = "exception"
        /\ doc.complete
        /\ doc.data # st[p]
        /\ ~tmp.exists

\* process p moves the directory now at the lock path aside
Evicts(p) ==
    /\ pc[p] = "rename"
    /\ lockdir.exists
    /\ ~lockdir'.exists

\* C33: a lock directory without a pid is moved aside only by an acquirer
\* that has seen the pid missing for the whole window, and the directory of
\* a live owner that recorded its pid within the window after creating it
\* (here: before the window since time 0 has passed) is never moved aside.
C33_PidlessWindow ==
    [][\A p \in Procs :
          Evicts(p) =>
             /\ lockdir.pid = NoPid =>
                  (missing[p] # NoTime /\ clock - missing[p] >= MissingPidWindow)
             /\ clock < MissingPidWindow =>
                  ~(lockdir.pid \in Procs /\ InCritical(lockdir.pid))]_vars

\* the second half of C33 alone
C33_OwnerNeverEvicted ==
    [][\A p \in Procs :
          (Evicts(p) /\ clock < MissingPidWindow) =>
             ~(lockdir.pid \in Procs /\ InCritical(lockdir.pid))]_vars

\* ------------------------------------------------- the strict stop hook
\* task t has reached a terminal state: completed, or failed with its
\* attempts used up
Terminal(t) ==
    \/ Get(t, "status", "") = "completed"
    \/ Exhausted(t)

NotHolding(g, i, w) ==
    LET t == g.tasks[i]
        waiting == \/ Unsatisfied(g.tasks, i)
                   \/ (Has(t, "depends_on") /\ t["depends_on"].kind = "truthy")
    IN  \/ Terminal(t)
        \/ t.status \in {"pending", "failed"} /\ waiting
        \/ /\ t.status = "in_progress"
           /\ g.mode = "concurrent" /\ w # ""
           /\ ClaimedByOther(t, w)

Owns(g, w) ==
    /\ g.shape = "list"
    /\ \E i \in DOMAIN g.tasks :
         /\ g.tasks[i].status = "in_progress"
         /\ Get(g.tasks[i], "claimed_by", "") = w

\* C35: in concurrent mode with no timeout configured (the marker was there
\* at the start), every invocation of the stop hook by a worker that owns an
\* in_progress task blocks, whatever invocations were made before it.
C35_OwnerAlwaysBlocked ==
    [][(/\ GateStep /\ gate.mode = "concurrent" /\ gate.timeout = NoField
        /\ gate'.w # "" /\ Owns(gate, gate'.w)) =>
          gate'.decision = "block"]_vars

\* the same for invocations that find the marker
C35_OwnerBlockedWhileMarker ==
    [][(/\ GateStep /\ gate.mode = "concurrent" /\ gate.timeout = NoField
        /\ gate.active
        /\ gate'.w # "" /\ Owns(gate, gate'.w)) =>
          gate'.decision = "block"]_vars

\* ------------------------------------------------------ bounded retries
\* C36: in every change of the persisted document the attempts of a task
\* stay within max_attempts and never decrease, a task enters in_progress
\* only with attempts < max_attempts, leaves it for failed with one attempt
\* more, and a failed task that has used up its attempts is left as it is;
\* so a task that starts at attempts 0 is in_progress at most max_attempts
\* times.
C36_RetriesBounded ==
    [][DocStep =>
        \A i \in DOMAIN doc.data.tasks :
            LET t == doc.data.tasks[i]
                u == doc'.data.tasks[i]
                max == Get(t, "max_attempts", 3)
            IN  /\ Get(u, "max_attempts", 3) = max
                /\ Get(t, "attempts", 0) <= Get(u, "attempts", 0)
                /\ Get(u, "attempts", 0) <= max
                /\ (Status(t) # "in_progress" /\ Status(u) = "in_progress") =>
                      /\ Get(t, "attempts", 0) < max
                      /\ Get(u, "attempts", 0) = Get(t, "attempts", 0)
                /\ (Status(t) = "in_progress" /\ Status(u) # "in_progress") =>
                      /\ Status(u) = "failed"
                      /\ Get(u, "attempts", 0) = Get(t, "attempts", 0) + 1
                /\ Exhausted(t) => u = t]_vars

\* C37: every exit of Claim or Renew after a successful lock acquisition
\* removes the lock directory.  A live process leaves its locked section
\* only by _release_lock, whatever the outcome (result, nothing to claim,
\* missing identity, Renew error, corrupt document, failed save), after
\* that step no lock directory exists, and a process that has ended is
\* never the one named in the lock directory.
C37_EveryExitReleases ==
    [][\A p \in Procs :
        /\ (InCritical(p) /\ ~InCritical(p)' /\ pc'[p] # "crashed") =>
              /\ pc[p] = "release"
              /\ pc'[p] = "done"
              /\ ~lockdir'.exists
        /\ (pc'[p] = "done") => (lockdir'.pid # p)]_vars

\* Claim or Renew has ended with an exception raised inside the locked
\* section, another with a normal result, and no lock directory is left.
C37_Witness ==
    /\ ~lockdir.exists
    /\ \E p, q \in Procs :
          /\ pc[p] = "done" /\ res[p].kind = "exception" /\ phase[p] # ""
          /\ pc[q] = "done" /\ res[q].kind \in {"claimed", "renewed"}

\* C38: Claim leaves unchanged everything it does not claim or reap.  Each
\* save of a Claim writes a document with every entry of tasks of the
\* document it replaces, in the same order; id, title, priority, depends_on
\* and max_attempts of every task are unchanged; a task that was neither
\* claimed nor reaped by this save is unchanged in every field; and the
\* session configuration is unchanged.
FrameFields == {"id", "title", "priority", "depends_on", "max_attempts"}

SameField(t, u, k) ==
    /\ (k \in DOMAIN t) = (k \in DOMAIN u)
    /\ (k \in DOMAIN t) => (t[k] = u[k])

C38_ClaimFrame ==
    [][(pc["p1"] = "replace" /\ op["p1"] = "claim" /\ doc' # doc) =>
        LET old == doc.data
            new == doc'.data
        IN  /\ new.mode = old.mode
            /\ DOMAIN new.tasks = DOMAIN old.tasks
            /\ \A i \in DOMAIN old.tasks :
                  LET t == old.tasks[i]
                      u == new.tasks[i]
                  IN  IF ~IsDict(t) THEN u = t
                      ELSE /\ \A k \in FrameFields : SameField(t, u, k)
                           /\ u # t =>
                                 \/ Status(t) # "in_progress" /\ Status(u) = "in_progress"
                                 \/ LeaseExpired(t, nowv["p1"]) /\ Status(u) = "failed"]_vars

\* C39: Renew does not check lease expiry or reap.  A Renew that has got
\* the lock fails only when the task is not in the persisted document, is
\* not in_progress or is claimed by another worker, never because its
\* lease has already run out; after a successful Renew the task is
\* in_progress with claimed_by the caller (also when it had no claimed_by)
\* and a lease that ends after the time Renew read as now.
C39_RenewIgnoresExpiry ==
    (pc["p1"] = "done" /\ op["p1"] = "renew" /\ wid["p1"] # "" /\ tid["p1"] # NoTask) =>
        LET n == FindTask(doc.data.tasks, tid["p1"])
            t == doc.data.tasks[n]
        IN  IF res["p1"].kind = "renewed"
            THEN /\ n # 0
                 /\ Status(t) = "in_progress"
                 /\ Get(t, "claimed_by", "") = wid["p1"]
                 /\ ParseIso(Get(t, "lease_expires_at", BadTs)) > nowv["p1"]
                 /\ Get(t, "attempts", 0) = Get(bak.data.tasks[n], "attempts", 0)
            ELSE \/ n = 0
                 \/ Status(t) # "in_progress"
                 \/ Get(t, "claimed_by", "") \notin {"", wid["p1"]}

\* a Renew has succeeded on a task whose lease had run out and that had no
\* claimed_by: the backup copy holds the document as Renew found it
C39_Witness ==
    /\ pc["p1"] = "done" /\ res["p1"].kind = "renewed"
    /\ bak.exists
    /\ LET n == FindTask(bak.data.tasks, tid["p1"])
       IN  /\ n # 0
           /\ LeaseExpired(bak.data.tasks[n], nowv["p1"])
           /\ "claimed_by" \notin DOMAIN bak.data.tasks[n]
           /\ Get(doc.data.tasks[n], "claimed_by", "") = "w1"

\* the same with the caller's own claimed_by on the task
C39_OwnerRenewsExpired ==
    /\ pc["p1"] = "done" /\ res["p1"].kind = "renewed"
    /\ bak.exists
    /\ LET n == FindTask(bak.data.tasks, tid["p1"])
       IN  /\ n # 0
           /\ LeaseExpired(bak.data.tasks[n], nowv["p1"])
           /\ Get(bak.data.tasks[n], "claimed_by", "") = "w1"

\* C40: the Ralph loop stop hook terminates.  Every invocation that blocks
\* raises the persisted iteration by exactly 1; it blocks only when the
\* state file is loadable, iteration < max_iterations (for max_iterations
\* > 0) and the last assistant message does not hold the token of the
\* loop's completion promise; otherwise it allows stop and the state file
\* is gone, so every later invocation allows stop too; and with
\* max_iterations > 0 the number of blocks never exceeds max_iterations
\* minus the iteration at the start.
RalphStep == ralph'.n = ralph.n + 1

RalphMax0(a) == IF a < 0 THEN 0 ELSE a

\* what C40 says of a step, the promise token being that of promise p
RalphStepOk(p) ==
    /\ ralph'.decision \in {"allow", "block"}
    /\ (ralph'.decision = "block") =>
          /\ ralph.file = "ok" /\ ralph'.file = "ok"
          /\ ralph'.iteration = ralph.iteration + 1
          /\ ralph'.max_iterations = ralph.max_iterations
          /\ (ralph.max_iterations > 0) => (ralph.iteration < ralph.max_iterations)
          /\ (p # NoPromise) => (ralph'.msg # p)
    /\ (ralph'.decision = "allow") =>
          /\ ralph'.file = "absent"
          /\ ralph'.iteration = ralph.iteration
    /\ (ralph.file = "absent") => (ralph'.decision = "allow")
    /\ (ralph.limit > 0) =>
          (ralph'.blocks <= RalphMax0(ralph.limit - ralph.start))

C40_RalphTerminates == [][RalphStep => RalphStepOk(ralph.promise)]_vars

\* the same with the token of the promise as the hook reads it back from
\* the state file it has written
C40_PersistedPromise == [][RalphStep => RalphStepOk(ralph.completion_promise)]_vars

\* a loop with max_iterations > 0 has blocked max_iterations minus the
\* initial iteration times, at least twice, then allowed stop with the
\* state file deleted, and allowed stop again on the next invocation
C40_Witness ==
    /\ ralph.limit > 0
    /\ ralph.blocks = ralph.limit - ralph.start
    /\ ralph.blocks >= 2
    /\ ralph.n = ralph.blocks + 2
    /\ ralph.file = "absent"
    /\ ralph.decision = "allow"

\* a loop has been ended by the promise token before max_iterations
C40_EndedByPromise ==
    /\ ralph.decision = "allow" /\ ralph.file = "absent"
    /\ ralph.blocks >= 1
    /\ ralph.msg = ralph.completion_promise /\ ralph.msg # NoPromise
    /\ (ralph.limit = 0 \/ ralph.iteration < ralph.limit)

====
